---- MODULE Spec2Model ----
(***************************************************************************)
(* A model of pyAlicat: the serial transport (comm.py), the command        *)
(* surface of a device handle (device.py) and the acquisition coordinator  *)
(* (daq.py).                                                               *)
(*                                                                         *)
(* Conventions.                                                            *)
(*  - Python strings are TLA+ strings.  Python None is the token NONE,     *)
(*    the booleans True / False are the tokens PyTrue / PyFalse, so that   *)
(*    isinstance(x, bool) and str(x) can be told apart from the strings    *)
(*    "True" / "False".                                                    *)
(*  - A firmware version is kept in hundredths: 10v05 -> 10.05 -> 1005.    *)
(*  - A float parsed from a reply is kept in hundredths: "+050.00" -> 5000.*)
(*  - Code tables (codes.json) map names to codes; a code is kept as the   *)
(*    decimal string that the f-string writes into the frame.              *)
(*  - A frame is the record [id, cmd, args]: the line <id><cmd> <args...>. *)
(*  - An exception is the name of its class; "ok" is a normal return.      *)
(***************************************************************************)
EXTENDS Integers, Sequences, FiniteSets, TLC

VARIABLES
    kind,       \* class of the handle: "FlowMeter" or "FlowController"
    id,         \* Device._id
    vers,       \* Device._vers, in hundredths
    df_format,  \* Device._df_format
    df_ret,     \* Device._df_ret
    emptyKey,   \* whether the code tables of codes.json hold the key ""
    dev,        \* the instrument: [gas, setpt, loop]
    last,       \* the call that completed last: [op, arg, frames, exc, val, calls]
    names,      \* the measurement list handed to get / request
    pc,         \* per caller: its position in SerialDevice._write_readline
    cmd,        \* per caller: the number of the command it writes (0: none yet)
    line,       \* per caller: the bytearray `line`, as the replies read so far
    isOpen,     \* SerialDevice.isOpen
    ser_devc,   \* SerialDevice.ser_devc, the stream: "open" or "closed"
    pending,    \* commands the instrument has received and not yet answered
    in_waiting, \* replies in the input buffer of the port
    done,       \* the completed _write_readline calls: [caller, cmd, line, exc]
    devices,    \* DAQ.devices, in insertion order: list of [name, val]
    held,       \* the handles whose transport is held open
    made,       \* number of handles Device.new_device has created
    daq,        \* the DAQ call that completed last
    logger,     \* DAQLogging.logging: its position and its locals
    qin,        \* DAQLogging.qin, the inbound queue
    qout,       \* DAQLogging.qout, the outbound queue
    now,        \* the clock, in ticks
    sink        \* the persistence sink: its connection and the rows inserted

handleVars == <<kind, id, vers, df_format, df_ret, emptyKey>>
cmdVars == <<dev, last, names>>
commVars == <<pc, cmd, line, isOpen, ser_devc, pending, in_waiting, done>>
logVars == <<logger, qin, qout, now, sink>>
daqVars == <<devices, held, made, daq, logVars>>
vars == <<handleVars, cmdVars, commVars, daqVars>>

\* the tasks that call the command methods of one handle
Callers == {1, 2}

\* the transport after SerialDevice.__init__, no call made
CommIdle ==
    /\ pc = [c \in Callers |-> "idle"]
    /\ cmd = [c \in Callers |-> 0]
    /\ line = [c \in Callers |-> <<>>]
    /\ isOpen = FALSE
    /\ ser_devc = "closed"
    /\ pending = <<>>
    /\ in_waiting = <<>>
    /\ done = <<>>

NoDaqCall == [op |-> "none", arg |-> <<>>, ids |-> <<>>, exc |-> "ok",
              returned |-> FALSE, ret |-> <<>>, log |-> <<>>]

\* DAQLogging.__init__: no logger thread started
LogIdle ==
    /\ logger = [pc |-> "idle"]
    /\ qin = <<>>
    /\ qout = <<>>
    /\ now = 0
    /\ sink = [conn |-> "none", rows |-> <<>>]

\* the coordinator after DAQ.__init__, no call made
DaqIdle ==
    /\ devices = <<>>
    /\ held = {}
    /\ made = 0
    /\ daq = NoDaqCall
    /\ LogIdle

(***************************************************************************)
(* Python values                                                           *)
(***************************************************************************)
NONE == "<None>"
PyTrue == "<True>"
PyFalse == "<False>"

IsBool(x) == x \in {PyTrue, PyFalse}

\* str(x) for the values the model passes around
Str(x) ==
    CASE x = PyTrue -> "True"
      [] x = PyFalse -> "False"
      [] x = NONE -> "None"
      [] OTHER -> x

\* truthiness of a str | None argument
Truthy(x) == x \notin {NONE, ""}

\* str.upper() on the names the model uses
Upper(s) ==
    CASE s \in {"GAS", "Gas", "gas"} -> "GAS"
      [] s \in {"SETPOINT", "Setpoint"} -> "SETPOINT"
      [] s \in {"SETPT", "Setpt"} -> "SETPT"
      [] s \in {"STPT", "stpt"} -> "STPT"
      [] s \in {"LOOP", "loop"} -> "LOOP"
      [] s \in {"LOOP_CTRL", "Loop_Ctrl"} -> "LOOP_CTRL"
      [] s \in {"Mass_Flow", "MASS_FLOW"} -> "MASS_FLOW"
      [] s \in {"Abs_Press", "ABS_PRESS"} -> "ABS_PRESS"
      [] s \in {"Foo", "FOO"} -> "FOO"
      [] OTHER -> s

\* float(s) succeeds
IsNumeric(s) == s \in {"0", "25", "50", "+000.00", "+025.00", "+050.00", "+014.70"}

\* float(s), in hundredths
Float(s) ==
    CASE s \in {"0", "+000.00"} -> 0
      [] s \in {"25", "+025.00"} -> 2500
      [] s \in {"50", "+050.00"} -> 5000
      [] s = "+014.70" -> 1470
      [] OTHER -> -1

Min(a, b) == IF a < b THEN a ELSE b

EmptyDict == [k \in {} |-> ""]

\* dict(zip(keys, vals)): the shorter list ends the zip, a repeated key
\* keeps its last value
Zip(keys, vals) ==
    LET n == Min(Len(keys), Len(vals))
        lastAt(k) == CHOOSE i \in 1..n :
                        keys[i] = k /\ \A j \in (i + 1)..n : keys[j] # k
    IN  [k \in {keys[i] : i \in 1..n} |-> vals[lastAt(k)]]

\* d.update(new)
Update(d, new) == new @@ d

(***************************************************************************)
(* Code tables (codes.json, loaded at device.py:27-31)                     *)
(***************************************************************************)
statistics ==
    LET t == ("Mass_Flow" :> "5") @@ ("Abs_Press" :> "2")
             @@ ("Mass_Flow_Setpt" :> "37")
    IN  IF emptyKey THEN ("" :> "1") @@ t ELSE t

units ==
    LET t == ("SCCM" :> "12")
    IN  IF emptyKey THEN ("" :> "1") @@ t ELSE t

gases == ("N2" :> "8")

\* gases.get(g, "")
GasesGet(g) == IF g \in DOMAIN gases THEN gases[g] ELSE ""

(***************************************************************************)
(* The instrument: a responsive device that stores what it is sent and     *)
(* answers every frame with one line (wire protocol, spec section 6).      *)
(* A reply is the list of its whitespace-separated tokens.                 *)
(***************************************************************************)
\* how the instrument prints a number kept in hundredths
Fmt(n) ==
    CASE n = 0 -> "+000.00"
      [] n = 2500 -> "+025.00"
      [] n = 5000 -> "+050.00"
      [] OTHER -> "--"

GasShort(code) == IF code = "8" THEN "N2" ELSE "Air"
GasLong(code) == IF code = "8" THEN "Nitrogen" ELSE "Air"

\* the standard data frame of the instrument in state d
DataFrame(d) ==
    <<id, "+014.70", "+025.00", "+000.00", "+000.00", Fmt(d.setpt), GasShort(d.gas)>>

\* the value of one statistic code in a DV reply
StatValue(d, code) ==
    CASE code = "5" -> "+000.00"
      [] code = "2" -> "+014.70"
      [] code = "37" -> Fmt(d.setpt)
      [] OTHER -> "--"

\* the instrument's state after frame f
InstrumentNext(d, f) ==
    CASE f.cmd \in {"GS", "G"} /\ f.args[1] # "" -> [d EXCEPT !.gas = f.args[1]]
      [] f.cmd \in {"LS", "S"} /\ IsNumeric(f.args[1]) ->
            [d EXCEPT !.setpt = Float(f.args[1])]
      [] f.cmd = "LV" /\ f.args[1] # "" -> [d EXCEPT !.loop = f.args[1]]
      [] OTHER -> d

\* the instrument's reply to frame f, given its state d2 after the frame
InstrumentReply(d2, f) ==
    CASE f.cmd = "" -> DataFrame(d2)
      [] f.cmd \in {"G", "S"} -> DataFrame(d2)
      [] f.cmd = "GS" -> <<id, d2.gas, GasShort(d2.gas), GasLong(d2.gas)>>
      [] f.cmd = "LS" -> <<id, Fmt(d2.setpt), Fmt(d2.setpt), "12", "SCCM">>
      [] f.cmd = "LV" -> <<id, d2.loop>>
      [] f.cmd = "DV" ->
            [i \in 1..(Len(f.args) - 1) |-> StatValue(d2, f.args[i + 1])]
      [] f.cmd = "ZCA" -> <<id, "0", "+000.00">>
      [] f.cmd = "NCB" -> <<id, "115200">>
      [] f.cmd = "NCS" -> <<id, "50">>
      [] f.cmd = "TC" -> <<id, "1", "5", "0", "0", "7", "0">>
      [] f.cmd = "TB" -> <<id, "1", "0", "12", "SCCM">>
      [] OTHER -> <<"?">>

(***************************************************************************)
(* Results of a command: the frames it wrote, how it ended, the mapping it *)
(* returned and the instrument's state afterwards.                         *)
(***************************************************************************)
Frame(c, a) == [id |-> id, cmd |-> c, args |-> a]

Raise(e, d) == [frames |-> <<>>, exc |-> e, val |-> EmptyDict, dev |-> d]

Return(fs, v, d) == [frames |-> fs, exc |-> "ok", val |-> v, dev |-> d]

\* after frame f was written and answered: raise e, the frame stays written
RaiseAfter(f, e, d) == [frames |-> <<f>>, exc |-> e, val |-> EmptyDict, dev |-> d]

\* indices of the schema fields with "decimal" in their TYPE
DecimalIdx == {i \in 1..Len(df_ret) : df_ret[i] \in {"decimal", "s decimal"}}

\* the parse shared by every data-frame command:
\*   df = ret.split(); df[index] = float(df[index]); dict(zip(_df_format, df))
ParseDataFrame(f, toks, d) ==
    IF \E i \in DecimalIdx : i > Len(toks) THEN RaiseAfter(f, "IndexError", d)
    ELSE IF \E i \in DecimalIdx : ~IsNumeric(toks[i])
    THEN RaiseAfter(f, "ValueError", d)
    ELSE Return(<<f>>,
                Zip(df_format, [i \in 1..Len(toks) |->
                        IF i \in DecimalIdx THEN Float(toks[i]) ELSE toks[i]]),
                d)

\* write frame f, read the reply line, parse it as a data frame
DataFrameCmd(d, f) ==
    LET d2 == InstrumentNext(d, f)
    IN  ParseDataFrame(f, InstrumentReply(d2, f), d2)

\* int(s) succeeds; the value is kept as the token
IntOk(tok) == tok \in {"0", "1", "2", "5", "37", "50", "115200"}

\* next((code for code, value in statistics.items() if value == int(ret[1])),
\*      ret[1]): the name of the code, or the token when no name has it
StatName(tok) ==
    IF \E n \in DOMAIN statistics : statistics[n] = tok
    THEN CHOOSE n \in DOMAIN statistics : statistics[n] = tok
    ELSE tok

\* the conversions the commands apply to reply token i: whether the
\* conversion succeeds, and its value
ConvOk(conv, i, tok) ==
    CASE conv = "float" -> IsNumeric(tok)
      [] conv \in {"int", "stat"} -> IntOk(tok)
      [] conv = "auto_tare" -> i = 2 \/ IsNumeric(tok)
      [] OTHER -> TRUE

Conv(conv, i, tok) ==
    CASE conv = "float" -> Float(tok)
      [] conv = "stat" -> StatName(tok)
      [] conv = "auto_tare" ->
            IF i = 3 THEN Float(tok)
            ELSE IF tok = "1" THEN "Enabled" ELSE IF tok = "0" THEN "Disabled" ELSE tok
      [] OTHER -> tok

\* the parse of a reply that is zipped with LABELS; the tokens at the
\* positions in need are converted first: a missing one is an IndexError,
\* one that does not convert a ValueError
LabelParse(f, toks, LABELS, need, conv, d2) ==
    IF \E i \in need : i > Len(toks) THEN RaiseAfter(f, "IndexError", d2)
    ELSE IF \E i \in need : ~ConvOk(conv, i, toks[i])
    THEN RaiseAfter(f, "ValueError", d2)
    ELSE Return(<<f>>,
                Zip(LABELS, [i \in 1..Len(toks) |->
                        IF i \in need THEN Conv(conv, i, toks[i]) ELSE toks[i]]),
                d2)

\* write frame f, read the reply line, zip it with LABELS
LabelCmd(d, f, LABELS, need, conv) ==
    LET d2 == InstrumentNext(d, f)
    IN  LabelParse(f, InstrumentReply(d2, f), LABELS, need, conv, d2)

(***************************************************************************)
(* Device commands (device.py).  Every operator takes the instrument's     *)
(* state and the call's arguments and gives the call's result.             *)
(* A handle made by new_device holds its schema (device.py:128), so the    *)
(* branch `if self._df_format is None` of the data-frame commands is not   *)
(* taken.                                                                  *)
(***************************************************************************)
\* a gate that compares the major version only
VersBelowMajor(minimum) == vers # 0 /\ vers \div 100 < minimum \div 100

\* the gate `if self._vers and self._vers < minimum`
VersBelow(minimum) == vers # 0 /\ vers < minimum

\* the gate `if self._vers and self._vers >= minimum`
VersAtLeast(minimum) == vers # 0 /\ vers >= minimum

poll(d) == DataFrameCmd(d, Frame("", <<>>))

\* the conversion loop of request: float() where it converts, "--" -> None
RequestConv(i, tok) ==
    IF IsNumeric(tok) THEN Float(tok) ELSE IF tok = "--" THEN NONE ELSE tok

\* the largest number of statistics of one request (device.py:165)
MaxStatsPerRequest == 13

\* the exchange of request: one DV frame with the codes of stats
RequestBody(d, stats, time) ==
    IF \E i \in 1..Len(stats) : stats[i] \notin DOMAIN statistics
    THEN Raise("KeyError", d)
    ELSE LET f == Frame("DV", <<time>> \o [i \in 1..Len(stats) |-> statistics[stats[i]]])
             d2 == InstrumentNext(d, f)
             toks == InstrumentReply(d2, f)
         IN  Return(<<f>>,
                    Zip(stats, [i \in 1..Len(toks) |-> RequestConv(i, toks[i])]),
                    d2)

\* request without the length check
request_unchecked(d, stats, time) == RequestBody(d, stats, time)

request(d, stats, time) ==
    IF Len(stats) > MaxStatsPerRequest THEN Raise("IndexError", d)
    ELSE RequestBody(d, stats, time)

GAS_LABELS == <<"Unit_ID", "Gas_Code", "Gas", "Gas_Long">>

RECURSIVE gas(_, _, _), _set_gas(_, _)

gas(d, g, save) ==
    IF Truthy(g) /\ VersBelow(1005) THEN _set_gas(d, g)
    ELSE LET code == GasesGet(g)
             save2 == IF code = "" THEN NONE ELSE save
         IN  \* savestr is bound only `if isinstance(save, bool)`
             IF ~IsBool(save2) THEN Raise("UnboundLocalError", d)
             ELSE LabelCmd(d,
                           Frame("GS", <<code, IF save2 = PyTrue THEN "1" ELSE "0">>),
                           GAS_LABELS, {}, "none")

_set_gas(d, g) ==
    IF VersAtLeast(1005) THEN gas(d, g, NONE)
    ELSE DataFrameCmd(d, Frame("G", <<GasesGet(g)>>))

SETPOINT_LABELS ==
    <<"Unit_ID", "Curr_Setpt", "Requested_Setpt", "Unit_Code", "Unit_Label">>

\* FlowController.setpoint; the early branch calls self.change_setpoint,
\* which no class defines (the method is _change_setpoint)
setpoint(d, value, unit) ==
    IF VersBelow(900) THEN Raise("AttributeError", d)
    ELSE IF unit \notin DOMAIN units THEN Raise("KeyError", d)
    ELSE LabelCmd(d, Frame("LS", <<value, units[unit]>>),
                  SETPOINT_LABELS, {2, 3}, "float")

\* a legacy form that writes its S frame and then hands over all the same
_change_setpoint_both(d, value) ==
    IF VersBelow(433) THEN Raise("VersionError", d)
    ELSE LET r1 == DataFrameCmd(d, Frame("S", <<value>>))
             r2 == setpoint(r1.dev, value, "")
         IN  IF VersAtLeast(900) THEN [r2 EXCEPT !.frames = r1.frames \o @]
             ELSE r1

_change_setpoint(d, value) ==
    IF VersBelow(433) THEN Raise("VersionError", d)
    ELSE IF VersAtLeast(900) THEN setpoint(d, value, "")
    ELSE DataFrameCmd(d, Frame("S", <<value>>))

\* `if var and var[-6:] != "_Setpt": var += "_Setpt"`
WithSetpt(var) ==
    CASE var = "" -> ""
      [] var \in {"Mass_Flow", "Mass_Flow_Setpt"} -> "Mass_Flow_Setpt"
      [] var = "Abs_Press" -> "Abs_Press_Setpt"
      [] var = "N2" -> "N2_Setpt"
      [] var = "50" -> "50_Setpt"
      [] OTHER -> "Foo_Setpt"

loop_control_var(d, var) ==
    IF VersBelow(900) THEN Raise("VersionError", d)
    ELSE IF WithSetpt(var) \notin DOMAIN statistics THEN Raise("KeyError", d)
    ELSE LabelCmd(d, Frame("LV", <<statistics[WithSetpt(var)]>>),
                  <<"Unit_ID", "Loop_Var_Val">>, {2}, "stat")

auto_tare(d, enable, delay) ==
    IF VersBelow(1005) THEN Raise("VersionError", d)
    ELSE LabelCmd(d,
                  Frame("ZCA", <<IF IsBool(enable)
                                 THEN (IF enable = PyTrue THEN "1" ELSE "0")
                                 ELSE enable, delay>>),
                  <<"Unit_ID", "Auto-tare", "Delay_(s)">>, {2, 3}, "auto_tare")

VALID_BAUD_RATES == {"2400", "4800", "9600", "19200", "38400", "57600", "115200"}

baud(d, new_baud) ==
    IF VersBelow(1005) THEN Raise("VersionError", d)
    ELSE LabelCmd(d,
                  Frame("NCB", <<IF new_baud # "" /\ new_baud \notin VALID_BAUD_RATES
                                 THEN "" ELSE new_baud>>),
                  <<"Unit_ID", "Baud">>, {2}, "int")

streaming_rate(d, interval) ==
    IF VersBelow(1005) THEN Raise("VersionError", d)
    ELSE LabelCmd(d, Frame("NCS", <<interval>>),
                  <<"Unit_ID", "Interval_(ms)">>, {2}, "int")

config_totalizer(d, totalizer, flow_stat_val) ==
    IF VersBelow(1000) THEN Raise("VersionError", d)
    ELSE LabelCmd(d,
                  Frame("TC", <<totalizer,
                                IF flow_stat_val = "" THEN ""
                                ELSE IF flow_stat_val \in DOMAIN statistics
                                THEN statistics[flow_stat_val] ELSE "-1",
                                "", "", "", "">>),
                  <<"Unit_ID", "Totalizer", "Flow_Stat_Val", "Mode", "Limit_Mode",
                    "Num_Digits", "Dec_Place">>, {}, "none")

batch(d, totalizer, batch_vol, unit) ==
    IF VersBelow(1000) THEN Raise("VersionError", d)
    ELSE IF unit \notin DOMAIN units THEN Raise("KeyError", d)
    ELSE LabelCmd(d, Frame("TB", <<totalizer, batch_vol, units[unit]>>),
                  <<"Unit_ID", "Totalizer", "Batch_Size", "Unit_Code", "Unit_Label">>,
                  {}, "none")

(***************************************************************************)
(* The aggregate get (Device.get, FlowController.get).  The loop state is  *)
(* [frames, exc, val, dev, flag, reqs, calls]; calls lists the commands    *)
(* the get has invoked, in order.  An exception ends the get.              *)
(***************************************************************************)
\* resp.update(await <command>): fold the command's result r into state st
Merge(st, r, name) ==
    [st EXCEPT !.frames = @ \o r.frames,
               !.exc = r.exc,
               !.val = IF r.exc = "ok" THEN Update(@, r.val) ELSE @,
               !.dev = r.dev,
               !.calls = Append(@, name)]

\* one pass of `for meas in measurements` of Device.get
DeviceGetStep(st, meas) ==
    IF meas \in DOMAIN statistics THEN [st EXCEPT !.reqs = Append(@, meas)]
    ELSE IF Upper(meas) = "GAS" THEN Merge(st, gas(st.dev, NONE, NONE), "gas")
    ELSE IF st.flag = 0 THEN [Merge(st, poll(st.dev), "poll") EXCEPT !.flag = 1]
    ELSE st

\* one pass of `for meas in measurements` of FlowController.get
ControllerGetStep(st, meas) ==
    IF meas # "" /\ meas \in DOMAIN statistics THEN [st EXCEPT !.reqs = Append(@, meas)]
    ELSE IF Upper(meas) = "GAS" THEN Merge(st, gas(st.dev, NONE, NONE), "gas")
    ELSE IF Upper(meas) \in {"SETPOINT", "STPT"}
    THEN Merge(st, setpoint(st.dev, "", ""), "setpoint")
    ELSE IF st.flag = 0 THEN [Merge(st, poll(st.dev), "poll") EXCEPT !.flag = 1]
    ELSE st

\* a pass that polls at every entry that triggers a poll
GetStepNoFlag(st, meas) ==
    IF kind = "FlowController" THEN ControllerGetStep([st EXCEPT !.flag = 0], meas)
    ELSE DeviceGetStep([st EXCEPT !.flag = 0], meas)

GetStep(st, meas) ==
    IF kind = "FlowController" THEN ControllerGetStep(st, meas)
    ELSE DeviceGetStep(st, meas)

RECURSIVE GetLoop(_, _, _)
GetLoop(st, ms, i) ==
    IF i > Len(ms) \/ st.exc # "ok" THEN st
    ELSE GetLoop(GetStep(st, ms[i]), ms, i + 1)

\* a batch that stops one name short
BatchShort(reqs, i) ==
    SubSeq(reqs, MaxStatsPerRequest * i + 1,
           Min(Len(reqs), MaxStatsPerRequest * i + MaxStatsPerRequest - 1))

\* reqs[13 * i : 13 + 13 * i], with i counted from 0
Batch(reqs, i) ==
    SubSeq(reqs, MaxStatsPerRequest * i + 1,
           Min(Len(reqs), MaxStatsPerRequest * i + MaxStatsPerRequest))

\* `while i * 13 < len(reqs): resp.update(await self.request(...)); i += 1`
RECURSIVE RequestLoop(_, _)
RequestLoop(st, i) ==
    IF ~(i * MaxStatsPerRequest < Len(st.reqs)) \/ st.exc # "ok" THEN st
    ELSE RequestLoop(Merge(st, request(st.dev, Batch(st.reqs, i), "1"), "request"),
                     i + 1)

\* get(measurements): `if not measurements: measurements = ["@"]`
get(d, measurements) ==
    LET ms == IF measurements = <<>> THEN <<"@">> ELSE measurements
        st0 == [frames |-> <<>>, exc |-> "ok", val |-> EmptyDict, dev |-> d,
                flag |-> 0, reqs |-> <<>>, calls |-> <<>>]
    IN  RequestLoop(GetLoop(st0, ms, 1), 0)

(***************************************************************************)
(* The aggregate set (Device.set, FlowController.set).  comm is the list   *)
(* of the mapping's entries in insertion order, each [name, list, items]:  *)
(* list tells a list parameter from a scalar one, items holds the list's   *)
(* elements or the one scalar.                                             *)
(***************************************************************************)
\* len(s) and s[0], s[1] of a scalar str parameter
StrLen(x) == IF x = "" THEN 0 ELSE IF x \in {"0", "5", "N"} THEN 1 ELSE 2
CharAt(x, i) ==
    CASE x = "N2" -> <<"N", "2">>[i]
      [] x = "50" -> <<"5", "0">>[i]
      [] x = "SCCM" -> <<"S", "C">>[i]
      [] x = "Mass_Flow" -> <<"M", "a">>[i]
      [] OTHER -> x

\* one pass of `for meas in list(comm.keys())` of Device.set: the
\* parameter is indexed as it is, comm[meas][0] and comm[meas][1]
DeviceSetStep(st, e) ==
    IF Upper(Str(e.name)) # "GAS" THEN st
    ELSE IF e.list
    THEN IF Len(e.items) < 2 THEN [st EXCEPT !.exc = "IndexError"]
         ELSE Merge(st, gas(st.dev, Str(e.items[1]), Str(e.items[2])), "gas")
    ELSE IF e.items[1] \in {NONE, PyTrue, PyFalse} THEN [st EXCEPT !.exc = "TypeError"]
    ELSE IF StrLen(e.items[1]) < 2 THEN [st EXCEPT !.exc = "IndexError"]
    ELSE Merge(st, gas(st.dev, CharAt(e.items[1], 1), CharAt(e.items[1], 2)), "gas")

\* `if type(comm[meas]) is not list: comm[meas] = [comm[meas]]` and
\* `while len(comm[meas]) < 2: comm[meas].append("")`
Params(e) ==
    IF Len(e.items) >= 2 THEN e.items
    ELSE e.items \o [i \in 1..(2 - Len(e.items)) |-> ""]

\* one pass of `for meas in list(comm.keys())` of FlowController.set
ControllerSetStep(st, e) ==
    LET p == Params(e)
        upper_meas == Upper(Str(e.name))
    IN  IF upper_meas = "GAS"
        THEN Merge(st, gas(st.dev, Str(p[1]), Str(p[2])), "gas")
        ELSE IF upper_meas \in {"SETPOINT", "SETPT"}
        THEN Merge(st, setpoint(st.dev, Str(p[1]), Str(p[2])), "setpoint")
        ELSE IF upper_meas \in {"LOOP", "LOOP_CTRL"}
        THEN Merge(st, loop_control_var(st.dev, Str(p[1])), "loop_control_var")
        ELSE st

\* the names the aggregate set of a controller knows
Recognized(e) ==
    Upper(Str(e.name)) \in {"GAS", "SETPOINT", "SETPT", "LOOP", "LOOP_CTRL"}

\* a pass that rejects a name it does not know
SetStepStrict(st, e) ==
    IF ~Recognized(e) THEN [st EXCEPT !.exc = "KeyError"]
    ELSE IF kind = "FlowController" THEN ControllerSetStep(st, e)
    ELSE DeviceSetStep(st, e)

SetStep(st, e) ==
    IF kind = "FlowController" THEN ControllerSetStep(st, e) ELSE DeviceSetStep(st, e)

RECURSIVE SetLoop(_, _, _)
SetLoop(st, comm, i) ==
    IF i > Len(comm) \/ st.exc # "ok" THEN st
    ELSE SetLoop(SetStep(st, comm[i]), comm, i + 1)

set(d, comm) ==
    SetLoop([frames |-> <<>>, exc |-> "ok", val |-> EmptyDict, dev |-> d,
             flag |-> 0, reqs |-> <<>>, calls |-> <<>>], comm, 1)

(***************************************************************************)
(* Handles, inputs and calls                                               *)
(***************************************************************************)
Kinds == {"FlowMeter", "FlowController"}

\* parsed firmware versions: 0v00, 8v28, 9v00, 10v00, 10v05
Versions == {0, 828, 900, 1000, 1005}

\* the schema of the instrument (??D*), as get_df_format leaves it
HandleInit ==
    /\ kind \in Kinds
    /\ id = "A"
    /\ vers \in Versions
    /\ df_format = <<"Unit_ID", "Abs_Press", "Flow_Temp", "Volu_Flow", "Mass_Flow",
                     "Mass_Flow_Setpt", "Gas">>
    /\ df_ret = <<"string", "s decimal", "s decimal", "s decimal", "s decimal",
                  "s decimal", "string">>
    /\ emptyKey \in BOOLEAN

Dev0 == [gas |-> "0", setpt |-> 0, loop |-> "37"]

NoCall == [op |-> "none", arg |-> <<>>, frames |-> <<>>, exc |-> "ok",
           val |-> EmptyDict, calls |-> <<>>]

\* the record of a completed call
CallRec(op, arg, r, calls) ==
    [op |-> op, arg |-> arg, frames |-> r.frames, exc |-> r.exc, val |-> r.val,
     calls |-> calls]

\* a call of a single command
Call(op, arg, r) ==
    /\ last' = CallRec(op, arg, r, <<>>)
    /\ dev' = r.dev
    /\ UNCHANGED <<handleVars, names, commVars, daqVars>>

\* a call of an aggregate operation
CallAggregate(op, arg, st) ==
    /\ last' = CallRec(op, arg, st, st.calls)
    /\ dev' = st.dev
    /\ UNCHANGED <<handleVars, names, commVars, daqVars>>

(***************************************************************************)
(* SpecGet: one handle, one measurement list, calls of get and request     *)
(***************************************************************************)
\* number of parts a measurement list is made of
MaxParts == 3

\* k statistic names
StatRun(k) == [i \in 1..k |-> IF i % 2 = 1 THEN "Mass_Flow" ELSE "Abs_Press"]

\* a part: one name, or a run of statistic names around the batch size
PartSet ==
    {<<t>> : t \in {"Gas", "SETPOINT", "Foo", ""}}
        \cup {StatRun(k) : k \in {1, MaxStatsPerRequest, MaxStatsPerRequest + 1}}

RECURSIVE Flatten(_)
Flatten(ps) == IF ps = <<>> THEN <<>> ELSE Head(ps) \o Flatten(Tail(ps))

NameLists == {Flatten(ps) : ps \in UNION {[1..n -> PartSet] : n \in 0..MaxParts}}

InitGet ==
    /\ HandleInit
    /\ dev = Dev0
    /\ last = NoCall
    /\ names \in NameLists
    /\ CommIdle
    /\ DaqIdle

CallGetNames == CallAggregate("get", names, get(dev, names))

CallRequestNames == \E time \in {"1", "100"} :
    Call("request", <<time>>, request(dev, names, time))

NextGet == CallGetNames \/ CallRequestNames

SpecGet == InitGet /\ [][NextGet]_vars

(***************************************************************************)
(* SpecCmd: one handle, any sequence of command calls                      *)
(***************************************************************************)
\* number of entries of the mapping handed to set
MaxComm == 2

Entry(n, l, it) == [name |-> n, list |-> l, items |-> it]

\* the key-value pairs a mapping handed to set is made of
Entries ==
    {Entry("Gas", FALSE, <<"N2">>),
     Entry("SETPOINT", TRUE, <<"50", "SCCM">>),
     Entry("SETPOINT", FALSE, <<"50">>),
     Entry("Setpt", FALSE, <<"50">>),
     Entry("LOOP_CTRL", FALSE, <<"Mass_Flow">>),
     Entry("Foo", FALSE, <<"N2">>),
     Entry("Foo", TRUE, <<"50", "SCCM">>)}

\* the mappings: lists of entries with pairwise different names
Comms ==
    {c \in UNION {[1..n -> Entries] : n \in 0..MaxComm} :
        \A i, j \in 1..Len(c) : i # j => c[i].name # c[j].name}

\* the lists handed to get
GetLists == {<<>>, <<"Gas">>, <<"SETPOINT">>, <<"Setpt">>, <<"Foo">>,
             <<"Mass_Flow">>, <<"Foo", "Gas">>}

InitCmd ==
    /\ HandleInit
    /\ dev = Dev0
    /\ last = NoCall
    /\ names = <<>>
    /\ CommIdle
    /\ DaqIdle

CallPoll == Call("poll", <<>>, poll(dev))

CallGas == \E g \in {NONE, "", "N2", "Foo"}, save \in {NONE, PyTrue, PyFalse} :
    Call("gas", <<g, save>>, gas(dev, g, save))

CallSetGas == \E g \in {NONE, "N2", "Foo"} :
    Call("_set_gas", <<g>>, _set_gas(dev, g))

CallSetpoint == \E value \in {"", "50"}, unit \in {"", "SCCM", "Foo"} :
    /\ kind = "FlowController"
    /\ Call("setpoint", <<value, unit>>, setpoint(dev, value, unit))

CallChangeSetpoint == \E value \in {"", "50"} :
    /\ kind = "FlowController"
    /\ Call("_change_setpoint", <<value>>, _change_setpoint(dev, value))

CallLoopControlVar == \E var \in {"", "Mass_Flow", "Foo"} :
    /\ kind = "FlowController"
    /\ Call("loop_control_var", <<var>>, loop_control_var(dev, var))

CallAutoTare == \E a \in {<<"", "">>, <<PyTrue, "0">>} :
    Call("auto_tare", a, auto_tare(dev, a[1], a[2]))

CallBaud == \E new_baud \in {"", "9600", "50"} :
    Call("baud", <<new_baud>>, baud(dev, new_baud))

CallStreamingRate == \E interval \in {"", "50"} :
    Call("streaming_rate", <<interval>>, streaming_rate(dev, interval))

CallConfigTotalizer == \E flow_stat_val \in {"", "Mass_Flow", "Foo"} :
    Call("config_totalizer", <<"1", flow_stat_val>>,
         config_totalizer(dev, "1", flow_stat_val))

CallBatch == \E a \in {<<"1", "", "">>, <<"1", "50", "SCCM">>} :
    /\ kind = "FlowController"
    /\ Call("batch", a, batch(dev, a[1], a[2], a[3]))

NextCmd ==
    \/ CallPoll
    \/ CallGas
    \/ CallSetGas
    \/ CallSetpoint
    \/ CallChangeSetpoint
    \/ CallLoopControlVar
    \/ CallAutoTare
    \/ CallBaud
    \/ CallStreamingRate
    \/ CallConfigTotalizer
    \/ CallBatch

SpecCmd == InitCmd /\ [][NextCmd]_vars

(***************************************************************************)
(* SpecSet: one handle, any sequence of aggregate set and get calls        *)
(***************************************************************************)
CallSet == \E comm \in Comms : CallAggregate("set", comm, set(dev, comm))

CallGet == \E ms \in GetLists : CallAggregate("get", ms, get(dev, ms))

NextSet ==
    \/ CallSet
    \/ CallGet

SpecSet == InitCmd /\ [][NextSet]_vars

(***************************************************************************)
(* SpecComm: the callers of one handle and its transport                   *)
(* Every command method ends in SerialDevice._write_readline(frame); the   *)
(* callers are tasks of one event loop, which switch at the awaits.        *)
(***************************************************************************)
\* number of commands the callers issue
MaxCmds == 3

Issued == Len(done) + Cardinality({c \in Callers : pc[c] # "idle"})

InitComm ==
    /\ kind = "FlowController"
    /\ id = "A"
    /\ vers = 1005
    /\ df_format = <<>>
    /\ df_ret = <<>>
    /\ emptyKey = FALSE
    /\ dev = Dev0
    /\ last = NoCall
    /\ names = <<>>
    /\ CommIdle
    /\ DaqIdle

\* the call of caller c ends, returning its line or raising exc
Finish(c, exc) ==
    /\ done' = Append(done, [caller |-> c, cmd |-> cmd[c], line |-> line[c],
                             exc |-> exc])
    /\ pc' = [pc EXCEPT ![c] = "idle"]

\* a caller calls a command method, which calls _write_readline(command)
Invoke(c) ==
    /\ pc[c] = "idle"
    /\ Issued < MaxCmds
    /\ pc' = [pc EXCEPT ![c] = "enter"]
    /\ cmd' = [cmd EXCEPT ![c] = Issued + 1]
    /\ line' = [line EXCEPT ![c] = <<>>]
    /\ UNCHANGED <<handleVars, cmdVars, daqVars, isOpen, ser_devc, pending, in_waiting, done>>

\* `async with self.ser_devc:` on a closed stream opens it
EnterClosed(c) ==
    /\ pc[c] = "enter"
    /\ ser_devc = "closed"
    /\ ser_devc' = "open"
    /\ pc' = [pc EXCEPT ![c] = "write"]
    /\ UNCHANGED <<handleVars, cmdVars, daqVars, cmd, line, isOpen, pending, in_waiting, done>>

\* `async with self.ser_devc:` on the stream another caller has open: the
\* stream library either goes on with the open stream ...
EnterOpen(c) ==
    /\ pc[c] = "enter"
    /\ ser_devc = "open"
    /\ pc' = [pc EXCEPT ![c] = "write"]
    /\ UNCHANGED <<handleVars, cmdVars, daqVars, cmd, line, isOpen, ser_devc, pending, in_waiting, done>>

\* ... or refuses to open it twice
EnterBusy(c) ==
    /\ pc[c] = "enter"
    /\ ser_devc = "open"
    /\ Finish(c, "BusyResourceError")
    /\ UNCHANGED <<handleVars, cmdVars, daqVars, cmd, line, isOpen, ser_devc, pending, in_waiting>>

\* `self.isOpen = True; await self._write(command)`: the frame goes out
_write(c) ==
    /\ pc[c] = "write"
    /\ ser_devc = "open"
    /\ isOpen' = TRUE
    /\ pending' = Append(pending, cmd[c])
    /\ pc' = [pc EXCEPT ![c] = "read"]
    /\ UNCHANGED <<handleVars, cmdVars, daqVars, cmd, line, ser_devc, in_waiting, done>>

\* the same after another caller has left its `async with` and closed the
\* stream: send_all fails
_writeClosed(c) ==
    /\ pc[c] = "write"
    /\ ser_devc = "closed"
    /\ isOpen' = TRUE
    /\ Finish(c, "ClosedResourceError")
    /\ UNCHANGED <<handleVars, cmdVars, daqVars, cmd, line, ser_devc, pending, in_waiting>>

\* `c = await self._read()` with bytes waiting: they are added to line, and
\* the loop ends as line holds the end of a line
_read(c) ==
    /\ pc[c] = "read"
    /\ ser_devc = "open"
    /\ in_waiting # <<>>
    /\ line' = [line EXCEPT ![c] = line[c] \o in_waiting]
    /\ in_waiting' = <<>>
    /\ pc' = [pc EXCEPT ![c] = "exit"]
    /\ ser_devc' = IF isOpen THEN "open" ELSE "closed"
    /\ UNCHANGED <<handleVars, cmdVars, daqVars, cmd, isOpen, pending, done>>

\* `self.ser_devc.in_waiting()` after another caller has closed the stream
_readClosed(c) ==
    /\ pc[c] = "read"
    /\ ser_devc = "closed"
    /\ Finish(c, "ClosedResourceError")
    /\ UNCHANGED <<handleVars, cmdVars, daqVars, cmd, line, isOpen, ser_devc, pending, in_waiting>>

\* move_on_after(self.timeout / 1000) ends with nothing read: break
timeout(c) ==
    /\ pc[c] = "read"
    /\ ser_devc = "open"
    /\ in_waiting = <<>>
    /\ pc' = [pc EXCEPT ![c] = "exit"]
    /\ UNCHANGED <<handleVars, cmdVars, daqVars, cmd, line, isOpen, ser_devc, pending, in_waiting, done>>

\* leaving `async with` closes the stream, with or without what waits in
\* its buffer; `self.isOpen = False; return line.decode("ascii")`
_write_readline_return(c) ==
    /\ pc[c] = "exit"
    /\ ser_devc' = "closed"
    /\ in_waiting' \in {in_waiting, <<>>}
    /\ isOpen' = FALSE
    /\ Finish(c, "ok")
    /\ UNCHANGED <<handleVars, cmdVars, daqVars, cmd, line, pending>>

\* the instrument answers the commands in the order it received them, each
\* at a time of its own; an answer that meets a closed port may be lost
InstrumentAnswer ==
    /\ pending # <<>>
    /\ pending' = Tail(pending)
    /\ in_waiting' \in IF ser_devc = "open"
                       THEN {Append(in_waiting, Head(pending))}
                       ELSE {Append(in_waiting, Head(pending)), in_waiting}
    /\ UNCHANGED <<handleVars, cmdVars, daqVars, pc, cmd, line, isOpen, ser_devc, done>>

NextComm ==
    \/ \E c \in Callers : Invoke(c)
    \/ \E c \in Callers : EnterClosed(c)
    \/ \E c \in Callers : EnterOpen(c)
    \/ \E c \in Callers : EnterBusy(c)
    \/ \E c \in Callers : _write(c)
    \/ \E c \in Callers : _writeClosed(c)
    \/ \E c \in Callers : _read(c)
    \/ \E c \in Callers : _readClosed(c)
    \/ \E c \in Callers : timeout(c)
    \/ \E c \in Callers : _write_readline_return(c)
    \/ InstrumentAnswer

SpecComm == InitComm /\ [][NextComm]_vars

(***************************************************************************)
(* SpecDaq: the coordinator DAQ and its registry of handles                *)
(***************************************************************************)
\* number of handles Device.new_device creates
MaxMade == 2

RegNames == {"A", "B"}

\* Device objects that exist before the coordinator and are handed to it
Adopted == {1}

\* the handle that new_device creates after it has created m
NewHandle(m) == Cardinality(Adopted) + m + 1

\* a dict in insertion order
DictKeys(reg) == {reg[i].name : i \in 1..Len(reg)}

DictGet(reg, n) == reg[CHOOSE i \in 1..Len(reg) : reg[i].name = n].val

\* dict.update({n: v})
DictUpdate(reg, n, v) ==
    IF n \in DictKeys(reg)
    THEN [i \in 1..Len(reg) |->
            IF reg[i].name = n THEN [name |-> n, val |-> v] ELSE reg[i]]
    ELSE Append(reg, [name |-> n, val |-> v])

\* del dict[n]
DictDel(reg, n) ==
    LET keep(e) == e.name # n IN SelectSeq(reg, keep)

\* how Device.new_device(port) ends: a port name that does not start with
\* /dev/ leaves `device` unassigned, a port where nothing answers ??M*
\* raises ValueError
new_device(port) ==
    CASE port = "/dev/ttyUSB0" -> "ok"
      [] port = "/dev/ttyS0" -> "ValueError"
      [] OTHER -> "UnboundLocalError"

Ports == {"/dev/ttyUSB0", "/dev/ttyS0", "COM1"}

\* the values of the mapping devs: a port or a Device
DevEntries ==
    {[type |-> "str", port |-> p, h |-> 0] : p \in Ports}
        \cup {[type |-> "Device", port |-> "", h |-> h] : h \in Adopted}

\* the mappings devs: lists of [name, val] with different names
DevsInputs ==
    {d \in UNION {[1..n -> [name : RegNames, val : DevEntries]] : n \in 0..2} :
        \A i, j \in 1..Len(d) : i # j => d[i].name # d[j].name}

\* a pass that goes on to the next entry when new_device fails
AddStepSkip(st, e) ==
    IF st.exc # "ok" THEN st
    ELSE IF e.val.type = "str"
    THEN IF new_device(e.val.port) = "ok"
         THEN [st EXCEPT !.reg = DictUpdate(@, e.name, NewHandle(st.made)),
                         !.made = @ + 1]
         ELSE st
    ELSE [st EXCEPT !.reg = DictUpdate(@, e.name, e.val.h)]

\* one pass of the loop of add_device
AddStep(st, e) ==
    IF st.exc # "ok" THEN st
    ELSE IF e.val.type = "str"
    THEN IF new_device(e.val.port) = "ok"
         THEN [st EXCEPT !.reg = DictUpdate(@, e.name, NewHandle(st.made)),
                         !.made = @ + 1]
         ELSE [st EXCEPT !.exc = new_device(e.val.port)]
    ELSE [st EXCEPT !.reg = DictUpdate(@, e.name, e.val.h)]

RECURSIVE AddLoop(_, _)
AddLoop(st, devs) ==
    IF devs = <<>> THEN st ELSE AddLoop(AddStep(st, Head(devs)), Tail(devs))

add_device(reg, m, devs) == AddLoop([reg |-> reg, made |-> m, exc |-> "ok"], devs)

\* how many handles add_device creates at most
StrEntries(devs) == Cardinality({i \in 1..Len(devs) : devs[i].val.type = "str"})

\* a coordinator exists: none is returned by an init that failed
HaveDaq == ~(daq.op = "init" /\ ~daq.returned)

\* DAQ.init(devs): a new coordinator, add_device, return it
DaqInit == \E devs \in DevsInputs :
    /\ daq.op = "none"
    /\ devices = <<>>
    /\ made + StrEntries(devs) <= MaxMade
    /\ LET st == add_device(<<>>, made, devs)
       IN  /\ devices' = IF st.exc = "ok" THEN st.reg ELSE <<>>
           /\ made' = st.made
           /\ daq' = [op |-> "init", arg |-> devs, ids |-> <<>>, exc |-> st.exc,
                      returned |-> (st.exc = "ok"),
                      ret |-> IF st.exc = "ok" THEN st.reg ELSE <<>>,
                      log |-> <<>>]
    /\ UNCHANGED <<handleVars, cmdVars, commVars, held, logVars>>

\* DAQ.add_device(devs) on the coordinator
DaqAddDevice == \E devs \in DevsInputs :
    /\ HaveDaq
    /\ made + StrEntries(devs) <= MaxMade
    /\ LET st == add_device(devices, made, devs)
       IN  /\ devices' = st.reg
           /\ made' = st.made
           /\ daq' = [op |-> "add_device", arg |-> devs, ids |-> <<>>,
                      exc |-> st.exc, returned |-> (st.exc = "ok"),
                      ret |-> <<>>, log |-> <<>>]
    /\ UNCHANGED <<handleVars, cmdVars, commVars, held, logVars>>

\* a pass that forgets the name without closing its handle
RemoveStepNoClose(st, n) ==
    IF st.exc # "ok" THEN st
    ELSE IF n \notin DictKeys(st.reg) THEN [st EXCEPT !.exc = "KeyError"]
    ELSE LET h == DictGet(st.reg, n)
         IN  [reg |-> DictDel(st.reg, n),
              held |-> st.held,
              exc |-> "ok",
              log |-> st.log \o <<[ev |-> "del", name |-> n, h |-> h]>>]

\* one pass of the loop of remove_device: close, then del
RemoveStep(st, n) ==
    IF st.exc # "ok" THEN st
    ELSE IF n \notin DictKeys(st.reg) THEN [st EXCEPT !.exc = "KeyError"]
    ELSE LET h == DictGet(st.reg, n)
         IN  [reg |-> DictDel(st.reg, n),
              held |-> st.held \ {h},
              exc |-> "ok",
              log |-> st.log \o <<[ev |-> "close", name |-> n, h |-> h],
                                  [ev |-> "del", name |-> n, h |-> h]>>]

RECURSIVE RemoveLoop(_, _)
RemoveLoop(st, name) ==
    IF name = <<>> THEN st ELSE RemoveLoop(RemoveStep(st, Head(name)), Tail(name))

remove_device(reg, hd, name) ==
    RemoveLoop([reg |-> reg, held |-> hd, exc |-> "ok", log |-> <<>>], name)

NameLists2 == UNION {[1..n -> RegNames] : n \in 0..2}

DaqRemoveDevice == \E name \in NameLists2 :
    /\ HaveDaq
    /\ LET st == remove_device(devices, held, name)
       IN  /\ devices' = st.reg
           /\ held' = st.held
           /\ daq' = [op |-> "remove_device", arg |-> name, ids |-> <<>>,
                      exc |-> st.exc, returned |-> (st.exc = "ok"),
                      ret |-> <<>>, log |-> st.log]
    /\ UNCHANGED <<handleVars, cmdVars, commVars, made, logVars>>

\* devices[name]._device.open(): the transport of a handle is held open
DaqOpen == \E i \in 1..Len(devices) :
    /\ HaveDaq
    /\ devices[i].val \notin held
    /\ held' = held \cup {devices[i].val}
    /\ daq' = [NoDaqCall EXCEPT !.op = "open", !.arg = <<devices[i].name>>,
                                !.returned = TRUE]
    /\ UNCHANGED <<handleVars, cmdVars, commVars, devices, made, logVars>>

\* an argument that is a str or a list: the str "" is [str, <<>>], the str
\* "A B" is [str, <<"A", "B">>]
StrArg(items) == [str |-> TRUE, items |-> items]

ListArg(items) == [str |-> FALSE, items |-> items]

IdsInputs ==
    {StrArg(<<>>), StrArg(<<"A", "B">>), ListArg(<<>>), ListArg(<<"A">>),
     ListArg(<<"A", "A">>), ListArg(<<"B", "A">>)}

ValInputs == {StrArg(<<>>), ListArg(<<"Mass_Flow">>), ListArg(<<"Gas">>)}

RegOrder(reg) == [i \in 1..Len(reg) |-> reg[i].name]

\* a selection without the test `if not id`: every registered name, then
\* every item of id
SelectedAlways(reg, ids) == RegOrder(reg) \o ids.items

\* the names DAQ.get starts a task for: every registered name `if not id`,
\* then every item of id
Selected(reg, ids) ==
    (IF ids.items = <<>> THEN RegOrder(reg) ELSE <<>>) \o ids.items

\* DAQ.update_dict_get, run as the task of the name n: the clock is read
\* before and after the aggregate get of the handle, and does not go back
update_dict_get(st, n, val, delay) ==
    IF n \notin DictKeys(devices)
    THEN [st EXCEPT !.exc = IF @ = "ok" THEN "KeyError" ELSE @]
    ELSE LET h == DictGet(devices, n)
             r == get(Dev0, val.items)
             stamps == ("Request Sent" :> st.tick)
                            @@ ("Response Received" :> st.tick + delay)
             ev == [ev |-> "get", name |-> n, h |-> h]
         IN  IF r.exc # "ok"
             THEN [st EXCEPT !.exc = IF @ = "ok" THEN r.exc ELSE @,
                             !.log = Append(@, ev)]
             ELSE [st EXCEPT !.ret = DictUpdate(@, n, Update(r.val, stamps)),
                             !.log = Append(@, ev),
                             !.tick = @ + 1]

RECURSIVE DaqGetLoop(_, _, _, _)
DaqGetLoop(st, sel, val, delay) ==
    IF sel = <<>> THEN st
    ELSE DaqGetLoop(update_dict_get(st, Head(sel), val, delay), Tail(sel), val, delay)

\* DAQ.get(val, id)
DaqGet == \E val \in ValInputs, ids \in IdsInputs, delay \in {0, 1} :
    /\ HaveDaq
    /\ LET st == DaqGetLoop([ret |-> <<>>, exc |-> "ok", log |-> <<>>, tick |-> 0],
                            Selected(devices, ids), val, delay)
       IN  daq' = [op |-> "get", arg |-> val, ids |-> ids, exc |-> st.exc,
                   returned |-> (st.exc = "ok"),
                   ret |-> IF st.exc = "ok" THEN st.ret ELSE <<>>,
                   log |-> st.log]
    /\ UNCHANGED <<handleVars, cmdVars, commVars, devices, held, made, logVars>>

InitDaq ==
    /\ HandleInit
    /\ kind = "FlowController"
    /\ vers = 1005
    /\ emptyKey = FALSE
    /\ dev = Dev0
    /\ last = NoCall
    /\ names = <<>>
    /\ CommIdle
    /\ devices = <<>>
    /\ held \in SUBSET Adopted
    /\ made = 0
    /\ daq = NoDaqCall
    /\ LogIdle

NextDaq ==
    \/ DaqInit
    \/ DaqAddDevice
    \/ DaqRemoveDevice
    \/ DaqOpen
    \/ DaqGet

SpecDaq == InitDaq /\ [][NextDaq]_vars

(***************************************************************************)
(* SpecLine: one caller, one transport, the bytes of the port              *)
(* The operations of SerialDevice, with the incoming bytes arriving in     *)
(* chunks, the read deadline, and the cancellation of the calling task.    *)
(* held is {1} from open() to close(); cmd[1] is the operation under way.  *)
(***************************************************************************)
\* number of bytes the instrument sends
MaxBytes == 2

\* number of operations the caller runs
MaxLineOps == 2

\* a printable byte, the end of line 0x0D, a byte that is not ASCII
Bytes == {"a", "CR", "xFF"}

eol == "CR"

HasEol(l) == \E i \in 1..Len(l) : l[i] = eol

\* line.decode("ascii") succeeds
Ascii(l) == \A i \in 1..Len(l) : l[i] # "xFF"

ByteStreams == UNION {[1..n -> Bytes] : n \in 0..MaxBytes}

\* the operations that enter `async with self.ser_devc` whatever isOpen is
ScopedOps == {"_readline", "_write_readline", "_write_readall"}

InitLine ==
    /\ kind = "FlowController"
    /\ id = "A"
    /\ vers = 1005
    /\ df_format = <<>>
    /\ df_ret = <<>>
    /\ emptyKey = FALSE
    /\ dev = Dev0
    /\ last = NoCall
    /\ names = <<>>
    /\ pc = [c \in Callers |-> "idle"]
    /\ cmd = [c \in Callers |-> "none"]
    /\ line = [c \in Callers |-> <<>>]
    /\ isOpen = FALSE
    /\ ser_devc = "closed"
    /\ pending \in ByteStreams
    /\ in_waiting = <<>>
    /\ done = <<>>
    /\ devices = <<>>
    /\ held = {}
    /\ made = 0
    /\ daq = NoDaqCall
    /\ LogIdle

lineFixed == <<handleVars, cmdVars, devices, made, daq, logVars>>

\* the operation under way ends: it returns l or raises exc; how tells
\* what ended it
LineFinish(l, exc, how) ==
    /\ done' = Append(done, [caller |-> 1, cmd |-> cmd[1], line |-> l,
                             exc |-> exc, how |-> how])
    /\ pc' = [pc EXCEPT ![1] = "idle"]

\* the position after `async with self.ser_devc:` is entered
Inside(op) ==
    CASE op = "_write_readall" -> "readall"
      [] op = "_read" -> "recv"
      [] op = "_write" -> "send"
      [] OTHER -> "read"

\* the caller starts an operation
LineCall == \E op \in ScopedOps \cup {"_read", "_write"} :
    /\ pc[1] = "idle"
    /\ Len(done) < MaxLineOps
    /\ cmd' = [cmd EXCEPT ![1] = op]
    /\ line' = [line EXCEPT ![1] = <<>>]
    /\ pc' = [pc EXCEPT ![1] = IF op \in ScopedOps \/ ~isOpen THEN "enter"
                               ELSE Inside(op)]
    /\ UNCHANGED <<lineFixed, isOpen, ser_devc, pending, in_waiting, done, held>>

\* `async with self.ser_devc:` opens the closed stream; the operations that
\* read a line then set isOpen
LineEnter ==
    /\ pc[1] = "enter"
    /\ ser_devc = "closed"
    /\ ser_devc' = "open"
    /\ isOpen' = IF cmd[1] \in ScopedOps THEN TRUE ELSE isOpen
    /\ pc' = [pc EXCEPT ![1] = Inside(cmd[1])]
    /\ UNCHANGED <<lineFixed, cmd, line, pending, in_waiting, done, held>>

\* `async with self.ser_devc:` on the stream that open() holds open: the
\* stream library goes on with it ...
LineEnterOpen ==
    /\ pc[1] = "enter"
    /\ ser_devc = "open"
    /\ isOpen' = IF cmd[1] \in ScopedOps THEN TRUE ELSE isOpen
    /\ pc' = [pc EXCEPT ![1] = Inside(cmd[1])]
    /\ UNCHANGED <<lineFixed, cmd, line, ser_devc, pending, in_waiting, done, held>>

\* ... or refuses to open it twice
LineEnterBusy ==
    /\ pc[1] = "enter"
    /\ ser_devc = "open"
    /\ LineFinish(<<>>, "BusyResourceError", "error")
    /\ UNCHANGED <<lineFixed, cmd, line, isOpen, ser_devc, pending, in_waiting, held>>

\* the stream after the block `async with self.ser_devc:` is left
Left(op) == IF op \in ScopedOps \/ ~isOpen THEN "closed" ELSE ser_devc

\* _write: send_all on the open stream, on a closed one it fails
LineSend ==
    /\ pc[1] = "send"
    /\ ser_devc' = Left("_write")
    /\ LineFinish(<<>>, IF ser_devc = "open" THEN "ok" ELSE "ClosedResourceError",
                  "sent")
    /\ UNCHANGED <<lineFixed, cmd, line, isOpen, pending, in_waiting, held>>

\* _read(len): receive_some returns the bytes that wait
LineReceive ==
    /\ pc[1] = "recv"
    /\ ser_devc = "open"
    /\ in_waiting # <<>>
    /\ in_waiting' = <<>>
    /\ ser_devc' = Left("_read")
    /\ LineFinish(in_waiting, "ok", "bytes")
    /\ UNCHANGED <<lineFixed, cmd, line, isOpen, pending, held>>

\* _read(len) with isOpen left True over a closed stream: receive_some fails
LineReceiveClosed ==
    /\ pc[1] = "recv"
    /\ ser_devc = "closed"
    /\ LineFinish(<<>>, "ClosedResourceError", "error")
    /\ UNCHANGED <<lineFixed, cmd, line, isOpen, ser_devc, pending, in_waiting, held>>

\* the read loop: `c = await self._read()`, `line += c`, and the loop of a
\* read-line operation breaks `if self.eol in line`
LineRead ==
    /\ pc[1] \in {"read", "readall"}
    /\ ser_devc = "open"
    /\ in_waiting # <<>>
    /\ line' = [line EXCEPT ![1] = @ \o in_waiting]
    /\ in_waiting' = <<>>
    /\ pc' = [pc EXCEPT ![1] = IF @ = "read" /\ HasEol(line[1] \o in_waiting)
                               THEN "exit_eol" ELSE @]
    /\ UNCHANGED <<lineFixed, cmd, isOpen, ser_devc, pending, done, held>>

\* the read loop: move_on_after ends with c still None: break
LineTimeout ==
    /\ pc[1] \in {"read", "readall"}
    /\ in_waiting = <<>>
    /\ pc' = [pc EXCEPT ![1] = "exit_timeout"]
    /\ UNCHANGED <<lineFixed, cmd, line, isOpen, ser_devc, pending, in_waiting, done,
                   held>>

\* after the loop: the block is left, which closes the stream, with or
\* without the bytes that wait; _readline and _write_readline set isOpen to
\* False and then decode, _write_readall decodes and then sets isOpen
LineReturn ==
    /\ pc[1] \in {"exit_eol", "exit_timeout"}
    /\ ser_devc' = "closed"
    /\ in_waiting' \in {in_waiting, <<>>}
    /\ isOpen' = IF cmd[1] = "_write_readall" /\ ~Ascii(line[1]) THEN isOpen
                 ELSE FALSE
    /\ LineFinish(IF Ascii(line[1]) THEN line[1] ELSE <<>>,
                  IF Ascii(line[1]) THEN "ok" ELSE "UnicodeDecodeError",
                  IF pc[1] = "exit_eol" THEN "eol" ELSE "timeout")
    /\ UNCHANGED <<lineFixed, cmd, line, pending, held>>

\* the task is cancelled and its block leaves the stream as it is
LineCancelLeak ==
    /\ pc[1] \in {"read", "readall", "recv"}
    /\ ser_devc' = ser_devc
    /\ LineFinish(<<>>, "Cancelled", "cancel")
    /\ UNCHANGED <<lineFixed, cmd, line, isOpen, pending, in_waiting, held>>

\* the calling task is cancelled at an await of the block, which is left
\* through its __aexit__; the lines after the block do not run
LineCancel ==
    /\ pc[1] \in {"read", "readall", "recv"}
    /\ ser_devc' = Left(cmd[1])
    /\ LineFinish(<<>>, "Cancelled", "cancel")
    /\ UNCHANGED <<lineFixed, cmd, line, isOpen, pending, in_waiting, held>>

\* SerialDevice.open()
LineOpen ==
    /\ pc[1] = "idle"
    /\ ser_devc = "closed"
    /\ isOpen' = TRUE
    /\ ser_devc' = "open"
    /\ held' = {1}
    /\ UNCHANGED <<lineFixed, pc, cmd, line, pending, in_waiting, done>>

\* SerialDevice.close()
LineClose ==
    /\ pc[1] = "idle"
    /\ held # {}
    /\ isOpen' = FALSE
    /\ ser_devc' = "closed"
    /\ held' = {}
    /\ in_waiting' \in {in_waiting, <<>>}
    /\ UNCHANGED <<lineFixed, pc, cmd, line, pending, done>>

\* some of the bytes the instrument sends reach the port; those that meet
\* a closed port may be lost
Arrive == \E k \in 1..Len(pending) :
    /\ pending' = SubSeq(pending, k + 1, Len(pending))
    /\ in_waiting' \in IF ser_devc = "open"
                       THEN {in_waiting \o SubSeq(pending, 1, k)}
                       ELSE {in_waiting \o SubSeq(pending, 1, k), in_waiting}
    /\ UNCHANGED <<lineFixed, pc, cmd, line, isOpen, ser_devc, done, held>>

NextLine ==
    \/ LineCall
    \/ LineEnter
    \/ LineEnterOpen
    \/ LineEnterBusy
    \/ LineSend
    \/ LineReceive
    \/ LineReceiveClosed
    \/ LineRead
    \/ LineTimeout
    \/ LineReturn
    \/ LineCancel
    \/ LineOpen
    \/ LineClose
    \/ Arrive

SpecLine == InitLine /\ [][NextLine]_vars

(***************************************************************************)
(* SpecFrame: one handle, its schema read from the instrument's ??D*       *)
(* table, and the replies of the instrument as they may come: with a       *)
(* value missing ("--"), longer, shorter, or the error reply "?".          *)
(* dev.table is the reply of the instrument to ??D*, one row per line.     *)
(***************************************************************************)
Row(n, t) == [NAME |-> n, TYPE |-> t]

Header == Row("NAME", "TYPE")

\* the rows of the standard fields, and those of the extended ones
StdRows ==
    {<<Row("Unit ID", "string"), Row("Mass Flow", "s decimal"), Row("Gas", "string")>>,
     <<Row("Unit ID", "string"), Row("Abs Press", "s decimal"),
       Row("Mass Flow", "s decimal"), Row("Gas", "string")>>}

ExtRows == {<<>>, <<Row("*Error", "string")>>,
            <<Row("*Error", "string"), Row("*Status", "string")>>}

Tables == {<<Header>> \o sr \o er : sr \in StdRows, er \in ExtRows}

\* str.replace(" ", "_") on the names of the tables
Underscore(n) ==
    CASE n = "Unit ID" -> "Unit_ID"
      [] n = "Abs Press" -> "Abs_Press"
      [] n = "Mass Flow" -> "Mass_Flow"
      [] OTHER -> n

\* Device.get_df_format: the NAME and TYPE cells of df_table[1:-1]
get_df_format(resp) ==
    LET rows == SubSeq(resp, 2, Len(resp) - 1)
    IN  [df_format |-> [i \in 1..Len(rows) |-> Underscore(rows[i].NAME)],
         df_ret |-> [i \in 1..Len(rows) |-> rows[i].TYPE]]

\* the standard fields of a table: the rows after the header whose name
\* does not begin with *
IsExt(n) == n \in {"*Error", "*Status"}

StdNames(resp) ==
    LET rows == SubSeq(resp, 2, Len(resp))
        std(r) == ~IsExt(r.NAME)
        sr == SelectSeq(rows, std)
    IN  [i \in 1..Len(sr) |-> Underscore(sr[i].NAME)]

\* the standard frame of the instrument whose decimal fields hold v
StdFrame(resp, v) ==
    LET rows == SubSeq(resp, 2, Len(resp))
        std(r) == ~IsExt(r.NAME)
        sr == SelectSeq(rows, std)
    IN  [i \in 1..Len(sr) |->
            CASE sr[i].NAME = "Unit ID" -> id
              [] sr[i].NAME = "Gas" -> "N2"
              [] OTHER -> v]

\* what the instrument may answer to a poll
PollReplies(resp) ==
    UNION {{StdFrame(resp, v),
            Append(StdFrame(resp, v), "MOV"),
            SubSeq(StdFrame(resp, v), 1, Len(StdFrame(resp, v)) - 1)} :
                v \in {"+025.00", "+000.00", "--"}}
        \cup {<<"?">>}

\* what the instrument may answer to LS
SetpointReplies ==
    {<<"A", "+025.00", "+025.00", "12", "SCCM">>,
     <<"A", "+025.00", "+025.00", "12">>,
     <<"A", "+025.00", "+025.00", "12", "SCCM", "MOV">>,
     <<"?">>}

InitFrame ==
    /\ kind \in Kinds
    /\ id = "A"
    /\ vers = 1005
    /\ emptyKey = FALSE
    /\ \E t \in Tables :
        /\ dev = [gas |-> "8", setpt |-> 2500, loop |-> "37", table |-> t]
        /\ df_format = get_df_format(t).df_format
        /\ df_ret = get_df_format(t).df_ret
    /\ last = NoCall
    /\ names = <<>>
    /\ CommIdle
    /\ DaqIdle

\* poll() answered by toks
FramePoll == \E toks \in PollReplies(dev.table) :
    /\ last' = CallRec("poll", toks, ParseDataFrame(Frame("", <<>>), toks, dev), <<>>)
    /\ UNCHANGED <<handleVars, dev, names, commVars, daqVars>>

\* setpoint(25, "SCCM") answered by toks
FrameSetpoint == \E toks \in SetpointReplies :
    /\ kind = "FlowController"
    /\ last' = CallRec("setpoint", toks,
                       LabelParse(Frame("LS", <<"25", units["SCCM"]>>), toks,
                                  SETPOINT_LABELS, {2, 3}, "float", dev),
                       <<>>)
    /\ UNCHANGED <<handleVars, dev, names, commVars, daqVars>>

\* get_df_format() called again
FrameGetDfFormat ==
    /\ df_format' = get_df_format(dev.table).df_format
    /\ df_ret' = get_df_format(dev.table).df_ret
    /\ last' = [NoCall EXCEPT !.op = "get_df_format"]
    /\ UNCHANGED <<kind, id, vers, emptyKey, dev, names, commVars, daqVars>>

NextFrame ==
    \/ FramePoll
    \/ FrameSetpoint
    \/ FrameGetDfFormat

SpecFrame == InitFrame /\ [][NextFrame]_vars

(***************************************************************************)
(* SpecDisc: Device.new_device on one port.  The instrument's replies to   *)
(* ??M* and ??D* and the order in which all_subclasses(Device) hands out   *)
(* the classes are drawn in Init and kept in dev; a string that a regular  *)
(* expression searches is the sequence of its characters.                  *)
(***************************************************************************)
\* re.search(pat, s) for a pattern of literal characters
Search(pat, s) ==
    \E i \in 1..(Len(s) - Len(pat) + 1) : SubSeq(s, i, i + Len(pat) - 1) = pat

\* FlowMeter._models and FlowController._models
MeterModels == {<<" ", "M", "-">>, <<" ", "M", "S", "-">>,
                <<" ", "M", "Q", "-">>, <<" ", "M", "W", "-">>}

ControllerModels == {<<" ", "M", "C", "-">>, <<" ", "M", "C", "S", "-">>,
                     <<" ", "M", "C", "Q", "-">>, <<" ", "M", "C", "W", "-">>}

\* FlowMeter.is_model and FlowController.is_model
is_model(cls, model) ==
    IF cls = "FlowController"
    THEN \E m \in ControllerModels : Search(m, model)
    ELSE \E m \in MeterModels : Search(m, model)

\* the orders in which the set all_subclasses(Device) may be iterated
ClassOrders == {<<"FlowMeter", "FlowController">>, <<"FlowController", "FlowMeter">>}

\* Device.__init__: the version found in dev_info["software"]; findall(...)[0]
\* on a string without one is an IndexError
SoftwareVers(software) ==
    CASE software = "10v05" -> 1005
      [] software = "8v28" -> 828
      [] OTHER -> -1

\* the number of lines of a full ??M* reply, the position of the line that
\* zip(INFO_KEYS, ...) leaves under "model" and under "software"
InfoLines == 10

ModelLine == 5

SoftwareLine == 10

\* model fields of the ??M* reply: text after "M04 "
ModelFields ==
    {<<"N", "o", " ", "M", "C", "-", "5">>,
     <<"N", "o", " ", "M", "C", "S", "-", "5">>,
     <<"N", "o", " ", "M", "-", "5">>,
     <<"N", "o", " ", "M", "Q", "-", "5">>,
     <<"N", "o", " ", "P", "C", "-", "5">>,
     <<"N", "o", " ", "M", "-", "5", " ", "M", "C", "-", "5">>}

\* replies to ??M*: the number of lines that came, the model and software
Replies ==
    [nlines : {0, ModelLine - 1, ModelLine, InfoLines},
     model : ModelFields,
     software : {"10v05", "none"}]

\* the outcome of Device.new_device: the exception or "ok", the class of the
\* handle and what its __init__ and get_df_format left in it; schema is
\* the set holding _df_format when one was stored
NoHandle(exc) == [exc |-> exc, cls |-> NONE, vers |-> 0, schema |-> {}]

\* the class the loop `for cls in all_subclasses(Device)` stops at
FirstMatch(order, model) ==
    LET hit(c) == is_model(c, model)
        hits == SelectSeq(order, hit)
    IN  IF hits = <<>> THEN NONE ELSE hits[1]

\* Device.new_device(port) with the replies m to ??M* and t to ??D*
Discovery(port, m, order, t) ==
    IF port # "/dev/ttyUSB0" THEN NoHandle("UnboundLocalError")
    ELSE IF m.nlines = 0 THEN NoHandle("ValueError")
    ELSE IF m.nlines < ModelLine THEN NoHandle("KeyError")
    ELSE LET cls == FirstMatch(order, m.model)
         IN  IF cls = NONE THEN NoHandle("ValueError")
             ELSE IF m.nlines < SoftwareLine THEN NoHandle("KeyError")
             ELSE IF SoftwareVers(m.software) < 0 THEN NoHandle("IndexError")
             ELSE IF t = <<>> THEN NoHandle("IndexError")
             ELSE [exc |-> "ok", cls |-> cls, vers |-> SoftwareVers(m.software),
                   schema |-> {get_df_format(t)}]

InitDisc ==
    /\ kind = NONE
    /\ id = "A"
    /\ vers = 0
    /\ df_format = <<>>
    /\ df_ret = <<>>
    /\ emptyKey = FALSE
    /\ \E port \in {"/dev/ttyUSB0", "COM3"}, m \in Replies, order \in ClassOrders,
          t \in Tables \cup {<<>>} :
        dev = [gas |-> "8", setpt |-> 2500, loop |-> "37", table |-> t,
               port |-> port, reply |-> m, order |-> order]
    /\ last = NoCall
    /\ names = <<>>
    /\ CommIdle
    /\ DaqIdle

\* Device.new_device(dev.port)
Discover ==
    LET r == Discovery(dev.port, dev.reply, dev.order, dev.table)
    IN  /\ last.op = "none"
        /\ last' = [NoCall EXCEPT !.op = "new_device", !.exc = r.exc,
                                  !.val = [cls |-> r.cls, schema |-> r.schema]]
        /\ kind' = r.cls
        /\ vers' = r.vers
        /\ df_format' = IF r.schema = {} THEN df_format
                        ELSE get_df_format(dev.table).df_format
        /\ df_ret' = IF r.schema = {} THEN df_ret
                     ELSE get_df_format(dev.table).df_ret
        /\ UNCHANGED <<id, emptyKey, dev, names, commVars, daqVars>>

NextDisc == Discover

SpecDisc == InitDisc /\ [][NextDisc]_vars

(***************************************************************************)
(* SpecHandle: one handle made by new_device (its schema is populated, so  *)
(* the branch `if self._df_format is None` of the data-frame commands is   *)
(* not taken) and the commands that change its address, its data frame or  *)
(* the mode of the instrument.  dev.unit is the address the instrument     *)
(* answers to, dev.streaming whether it streams; done is the history of    *)
(* the completed calls.                                                    *)
(***************************************************************************)
\* number of calls made on the handle
MaxCalls == 3

\* the table of the instrument of this specification
HandleTable ==
    <<Header, Row("Unit ID", "string"), Row("Mass Flow", "s decimal"),
      Row("Gas", "string"), Row("*Error", "string"), Row("*Status", "string")>>

\* the instrument after the line f reached it: `<id>@ @` starts the stream,
\* `@@ <new>` stops it and `<id>@ <new>` changes the address; while it
\* streams it takes no addressed command
HandleNext(d, f) ==
    IF f.cmd = "@@" THEN [d EXCEPT !.streaming = FALSE, !.unit = f.args[1]]
    ELSE IF d.streaming \/ f.id # d.unit \/ f.cmd # "@" THEN d
    ELSE IF f.args = <<"@">> THEN [d EXCEPT !.streaming = TRUE]
    ELSE [d EXCEPT !.unit = f.args[1]]

\* the line _write_readline returns after f was written: a frame of the
\* stream, the reply of the instrument addressed, or nothing (the timeout
\* ends the read with an empty line)
HandleReply(d, f) ==
    IF d.streaming \/ f.id = d.unit
    THEN [StdFrame(d.table, "+025.00") EXCEPT ![1] = d.unit]
    ELSE <<>>

\* a data-frame command: write f, read a line, parse it with the schema
HandleDataFrame(d, f) == ParseDataFrame(f, HandleReply(d, f), HandleNext(d, f))

\* the result of a command with the address of the handle afterwards
WithId(r, i) == [frames |-> r.frames, exc |-> r.exc, val |-> r.val, dev |-> r.dev,
                 id |-> i]

\* Device.tare_abs_P, tare_flow, tare_gauge_P
TareCmd == [tare_abs_P |-> "PC", tare_flow |-> "V", tare_gauge_P |-> "P"]

tare(d, op) == WithId(HandleDataFrame(d, Frame(TareCmd[op], <<>>)), id)

\* FlowController.cancel_valve_hold, exhaust, hold_valves, hold_valves_closed:
\* the version gate, then `gas = gases.get(gas, "")`, which reads the local
\* name gas before it is assigned
ValveCmd == [cancel_valve_hold |-> "C", exhaust |-> "E", hold_valves |-> "HP",
             hold_valves_closed |-> "HC"]

ValveMin == [cancel_valve_hold |-> 0, exhaust |-> 437, hold_valves |-> 507,
             hold_valves_closed |-> 507]

valve(d, op) ==
    IF VersBelow(ValveMin[op]) THEN WithId(Raise("VersionError", d), id)
    ELSE WithId(Raise("UnboundLocalError", d), id)

\* Device.configure_data_frame
ConfigureMin == 600

configure_data_frame(d, format) ==
    IF VersBelow(ConfigureMin) THEN WithId(Raise("VersionError", d), id)
    ELSE WithId(HandleDataFrame(d, Frame("FDF", <<format>>)), id)

\* a change of address that leaves self._id as it was
change_unit_id_keep(d, new_id) ==
    LET f == Frame("@", <<new_id>>)
    IN  WithId(Return(<<f>>, EmptyDict, HandleNext(d, f)), id)

\* Device.change_unit_id
change_unit_id(d, new_id) ==
    LET f == Frame("@", <<new_id>>)
    IN  WithId(Return(<<f>>, EmptyDict, HandleNext(d, f)), new_id)

\* Device.start_stream
start_stream(d) ==
    LET f == Frame("@", <<"@">>)
    IN  WithId(Return(<<f>>, EmptyDict, HandleNext(d, f)), id)

\* Device.stop_stream: the line is `@@ <new_id>`; the new address is stored
\* in self.id, which no command reads, and self._id stays
stop_stream(d, new_id) ==
    LET n == IF new_id = NONE THEN id ELSE new_id
        f == [id |-> "", cmd |-> "@@", args |-> <<n>>]
    IN  WithId(Return(<<f>>, EmptyDict, HandleNext(d, f)), id)

InitHandle ==
    /\ kind \in Kinds
    /\ id = "A"
    /\ vers \in {0, 400, 500, 1005}
    /\ df_format = get_df_format(HandleTable).df_format
    /\ df_ret = get_df_format(HandleTable).df_ret
    /\ emptyKey = FALSE
    /\ dev = [gas |-> "8", setpt |-> 2500, loop |-> "37", table |-> HandleTable,
              unit |-> "A", streaming |-> FALSE]
    /\ last = NoCall
    /\ names = <<>>
    /\ pc = [c \in Callers |-> "idle"]
    /\ cmd = [c \in Callers |-> 0]
    /\ line = [c \in Callers |-> <<>>]
    /\ isOpen = FALSE
    /\ ser_devc = "closed"
    /\ pending = <<>>
    /\ in_waiting = <<>>
    /\ done = <<>>
    /\ DaqIdle

\* a call on the handle completes with r; it is added to the history with
\* the address the handle had when it was made
HandleCall(op, arg, r) ==
    /\ Len(done) < MaxCalls
    /\ last' = CallRec(op, arg, r, <<>>)
    /\ done' = Append(done, [op |-> op, arg |-> arg, frames |-> r.frames,
                             exc |-> r.exc, val |-> r.val, id |-> id])
    /\ dev' = r.dev
    /\ id' = r.id
    /\ UNCHANGED <<kind, vers, df_format, df_ret, emptyKey, names, pc, cmd, line,
                   isOpen, ser_devc, pending, in_waiting, daqVars>>

HandlePoll == HandleCall("poll", <<>>, WithId(HandleDataFrame(dev, Frame("", <<>>)), id))

HandleTare == \E op \in DOMAIN TareCmd : HandleCall(op, <<>>, tare(dev, op))

HandleValve == \E op \in DOMAIN ValveCmd :
    /\ kind = "FlowController"
    /\ HandleCall(op, <<>>, valve(dev, op))

HandleConfigureDataFrame == \E format \in {"0", "1"} :
    HandleCall("configure_data_frame", <<format>>, configure_data_frame(dev, format))

HandleChangeUnitId == \E new_id \in {"B", "C"} :
    HandleCall("change_unit_id", <<new_id>>, change_unit_id(dev, new_id))

HandleStartStream == HandleCall("start_stream", <<>>, start_stream(dev))

HandleStopStream == \E new_id \in {NONE, "B"} :
    HandleCall("stop_stream", <<new_id>>, stop_stream(dev, new_id))

NextHandle ==
    \/ HandlePoll
    \/ HandleTare
    \/ HandleValve
    \/ HandleConfigureDataFrame
    \/ HandleChangeUnitId
    \/ HandleStartStream
    \/ HandleStopStream

SpecHandle == InitHandle /\ [][NextHandle]_vars

(***************************************************************************)
(* SpecLog: the logger thread of DAQLogging.start_logging and the callers  *)
(* that put messages on its inbound queue.  Time is in ticks; the rate is  *)
(* one sample per Period ticks.  A message of the queue is [type, val]:    *)
(* the string "Stop", or the list [fn, *args] with fn the coordinator's    *)
(* get or set.  A row is [Time2, Device, k]: twice its Time (the middle of *)
(* Request Sent and Response Received), its device, and the number of the  *)
(* sample it comes from.                                                   *)
(***************************************************************************)
\* ticks of one period, 1 / rate
Period == 4

\* messages put on the inbound queue
MaxMsgs == 2

\* the durations run, about two periods
Durations == (2 * Period - 1)..(2 * Period + 1)

\* the clock stops here, after the longest duration has elapsed
MaxTime == 3 * Period

\* ticks a sample (the get and the insert) may take: less than one period
SampleTicks == Period - 1

\* the names registered with the coordinator
LogDevices == <<"A", "B">>

MsgStop == [type |-> "str", val |-> "Stop"]

MsgCommands == {[type |-> "list", val |-> fn] : fn \in {"get", "set"}}

\* what the get of a sample may raise: the serial layer's timeout, and the
\* IndexError of Device.poll on the empty line a silent instrument leaves
SampleErrors == {"TimeoutError", "IndexError"}

\* the condition of line 365, never true
DueNever(t, start, reps) == FALSE

\* the condition now - start >= reps * (1 / rate)
DueEarly(t, start, reps) == t - (reps * Period + start) >= 0

\* time.time_ns() / 1e9 - (reps * 1 / rate + start / 1e9) >= 1 / rate
Due(t, start, reps) == t - (reps * Period + start) >= Period

\* the rows built from self.df, one per device
Rows(df) ==
    [i \in 1..Len(LogDevices) |->
        [Time2 |-> df.sent + df.recv, Device |-> LogDevices[i], k |-> df.k]]

NoDf == [k |-> 0, sent |-> 0, recv |-> 0]

InitLog ==
    /\ HandleInit
    /\ kind = "FlowController"
    /\ vers = 1005
    /\ emptyKey = FALSE
    /\ dev = Dev0
    /\ last = NoCall
    /\ names = <<>>
    /\ CommIdle
    /\ devices = <<>>
    /\ held = {}
    /\ made = 0
    /\ daq = NoDaqCall
    /\ \E a \in BOOLEAN, d \in Durations :
        logger = [pc |-> "boot", write_async |-> a, duration |-> d, start |-> 0,
                  reps |-> 0, rows |-> <<>>, df |-> NoDf, k |-> 0, sent |-> 0,
                  get |-> "no", ins |-> "no", exc |-> "ok", lag |-> 0, work |-> 0,
                  stopped |-> FALSE, taken |-> 0, puts |-> 0, warned |-> FALSE,
                  callers |-> <<>>]
    /\ qin = <<>>
    /\ qout = <<>>
    /\ now = 0
    /\ sink = [conn |-> "none", rows |-> <<>>]

\* a run long enough for a sample after an overrun
PaceDuration == 3 * Period

InitPace ==
    /\ HandleInit
    /\ kind = "FlowController"
    /\ vers = 1005
    /\ emptyKey = FALSE
    /\ dev = Dev0
    /\ last = NoCall
    /\ names = <<>>
    /\ CommIdle
    /\ devices = <<>>
    /\ held = {}
    /\ made = 0
    /\ daq = NoDaqCall
    /\ \E a \in BOOLEAN :
        logger = [pc |-> "boot", write_async |-> a, duration |-> PaceDuration,
                  start |-> 0, reps |-> 0, rows |-> <<>>, df |-> NoDf, k |-> 0,
                  sent |-> 0, get |-> "no", ins |-> "no", exc |-> "ok", lag |-> 0,
                  work |-> 0, stopped |-> FALSE, taken |-> 0, puts |-> 0,
                  warned |-> FALSE, callers |-> <<>>]
    /\ qin = <<>>
    /\ qout = <<>>
    /\ now = 0
    /\ sink = [conn |-> "none", rows |-> <<>>]

logFixed == <<handleVars, cmdVars, commVars, devices, held, made, daq>>

\* `async with database as conn`, the first get, create_table, start
LogBoot ==
    /\ logger.pc = "boot"
    /\ logger' = [logger EXCEPT !.pc = "loop", !.start = now, !.reps = 0]
    /\ sink' = [sink EXCEPT !.conn = "open"]
    /\ UNCHANGED <<logFixed, qin, qout, now>>

\* the loop is left: the block `async with database` ends and
\* AsyncPG.__aexit__ closes the connection
LogLeave(how, exc) ==
    /\ logger' = [logger EXCEPT !.pc = how, !.exc = exc, !.lag = 0]
    /\ sink' = [sink EXCEPT !.conn = "closed"]

\* while (time.time_ns() - start) / 1e9 <= duration
LogWhile ==
    /\ logger.pc = "loop"
    /\ IF now - logger.start <= logger.duration
       THEN /\ logger' = [logger EXCEPT !.pc = "queue", !.lag = 0]
            /\ sink' = sink
       ELSE LogLeave("done", "ok")
    /\ UNCHANGED <<logFixed, qin, qout, now>>

\* a pass that goes on sampling after "Stop" was taken from the queue
LogQueueNoBreak ==
    /\ logger.pc = "queue"
    /\ IF qin = <<>>
       THEN /\ logger' = [logger EXCEPT !.pc = "check"]
            /\ UNCHANGED <<qin, sink>>
       ELSE /\ qin' = Tail(qin)
            /\ IF Head(qin) = MsgStop
               THEN /\ logger' = [logger EXCEPT !.pc = "check", !.stopped = TRUE]
                    /\ sink' = sink
               ELSE /\ LogLeave("failed", "NameError")
    /\ UNCHANGED <<logFixed, qout, now>>

\* `if not self.qin.empty()`: a message is taken; "Stop" breaks the loop; for
\* a list, isinstance(comm[0], function) is evaluated, and the name function
\* is bound nowhere (no builtin, no import): NameError leaves the loop before
\* comm[0] is called or anything is put on qout
LogQueue ==
    /\ logger.pc = "queue"
    /\ IF qin = <<>>
       THEN /\ logger' = [logger EXCEPT !.pc = "check"]
            /\ UNCHANGED <<qin, sink>>
       ELSE /\ qin' = Tail(qin)
            /\ IF Head(qin) = MsgStop
               THEN /\ logger' = [logger EXCEPT !.pc = "done", !.stopped = TRUE,
                                                !.lag = 0]
                    /\ sink' = [sink EXCEPT !.conn = "closed"]
               ELSE /\ logger' = [logger EXCEPT !.pc = "failed", !.exc = "NameError",
                                                !.taken = @ + 1, !.lag = 0]
                    /\ sink' = [sink EXCEPT !.conn = "closed"]
    /\ UNCHANGED <<logFixed, qout, now>>

\* line 365: is the next sample due
LogCheck ==
    /\ logger.pc = "check"
    /\ logger' = [logger EXCEPT
            !.pc = IF Due(now, logger.start, logger.reps)
                   THEN (IF logger.write_async THEN "group" ELSE "get")
                   ELSE "loop",
            !.lag = 0, !.work = 0]
    /\ UNCHANGED <<logFixed, qin, qout, now, sink>>

\* DAQ.get starts: update_dict_get reads the clock (Request Sent)
LogGetStart ==
    /\ logger.pc \in {"get", "group"}
    /\ logger.get = "no"
    /\ logger' = [logger EXCEPT !.get = "sent", !.sent = now, !.k = @ + 1]
    /\ UNCHANGED <<logFixed, qin, qout, now, sink>>

\* DAQ.get ends: the clock is read again (Response Received), self.df is set
LogGetEnd ==
    /\ logger.get = "sent"
    /\ logger' = [logger EXCEPT !.get = "done",
                                !.df = [k |-> logger.k, sent |-> logger.sent,
                                        recv |-> now]]
    /\ UNCHANGED <<logFixed, qin, qout, now, sink>>

\* DAQ.get raises: no statement of logging catches it, so it leaves the
\* task group, the loop and the block `async with database`
LogGetFail == \E exc \in SampleErrors :
    /\ logger.get = "sent"
    /\ logger' = [logger EXCEPT !.pc = "failed", !.exc = exc, !.get = "raised",
                                !.lag = 0]
    /\ sink' = [sink EXCEPT !.conn = "closed"]
    /\ UNCHANGED <<logFixed, qin, qout, now>>

\* a task of the group that inserts nothing
LogGroupInsertNone ==
    /\ logger.pc = "group"
    /\ logger.ins = "no"
    /\ logger' = [logger EXCEPT !.ins = "done"]
    /\ UNCHANGED <<logFixed, qin, qout, now, sink>>

\* write_async: the task insert_data(rows, conn) of the group, with the rows
\* of the iteration before
LogGroupInsert ==
    /\ logger.pc = "group"
    /\ logger.ins = "no"
    /\ logger' = [logger EXCEPT !.ins = "done"]
    /\ sink' = [sink EXCEPT !.rows = @ \o logger.rows]
    /\ UNCHANGED <<logFixed, qin, qout, now>>

\* the get (and, with write_async, the group) is over: rows is built anew
LogRows ==
    /\ logger.get = "done"
    /\ \/ logger.pc = "get"
       \/ logger.pc = "group" /\ logger.ins = "done"
    /\ logger' = [logger EXCEPT !.rows = Rows(logger.df), !.get = "no", !.ins = "no",
                                !.pc = IF logger.write_async THEN "catchup"
                                       ELSE "insert"]
    /\ UNCHANGED <<logFixed, qin, qout, now, sink>>

\* not write_async: await self.insert_data(rows, conn)
LogInsert ==
    /\ logger.pc = "insert"
    /\ logger' = [logger EXCEPT !.pc = "catchup"]
    /\ sink' = [sink EXCEPT !.rows = @ \o logger.rows]
    /\ UNCHANGED <<logFixed, qin, qout, now>>

\* reps += 1 only: the ticks that were missed stay due
LogCatchUpReplay ==
    /\ logger.pc = "catchup"
    /\ logger' = [logger EXCEPT
            !.pc = "loop", !.lag = 0,
            !.reps = logger.reps + 1,
            !.warned = @ \/ (now - logger.start) \div Period >= logger.reps + 2]
    /\ UNCHANGED <<logFixed, qin, qout, now, sink>>

\* reps += 1, and once more, with the warning "Process takes too long", for
\* every period that has gone by meanwhile
LogCatchUp ==
    /\ logger.pc = "catchup"
    /\ logger' = [logger EXCEPT
            !.pc = "loop", !.lag = 0,
            !.reps = IF (now - logger.start) \div Period >= logger.reps + 2
                     THEN (now - logger.start) \div Period
                     ELSE logger.reps + 1,
            !.warned = @ \/ (now - logger.start) \div Period >= logger.reps + 2]
    /\ UNCHANGED <<logFixed, qin, qout, now, sink>>

\* DAQLogging.stop_logging
PutStop ==
    /\ logger.puts < MaxMsgs
    /\ qin' = Append(qin, MsgStop)
    /\ logger' = [logger EXCEPT !.puts = @ + 1]
    /\ UNCHANGED <<logFixed, qout, now, sink>>

\* DAQLogging.get and DAQLogging.set: the list is put, and the caller waits
\* in `while self.qout.empty(): pass`
PutCommand == \E m \in MsgCommands :
    /\ logger.puts < MaxMsgs
    /\ qin' = Append(qin, m)
    /\ logger' = [logger EXCEPT
            !.puts = @ + 1,
            !.callers = Append(@, [fn |-> m.val, pc |-> "wait", val |-> NONE])]
    /\ UNCHANGED <<logFixed, qout, now, sink>>

\* one test of `while self.qout.empty(): pass` by a caller of get or set,
\* and `return self.qout.get()` once it is false
CallerWait == \E c \in 1..Len(logger.callers) :
    /\ logger.callers[c].pc = "wait"
    /\ IF qout = <<>>
       THEN UNCHANGED <<logger, qout>>
       ELSE /\ logger' = [logger EXCEPT !.callers[c].pc = "returned",
                                        !.callers[c].val = Head(qout)]
            /\ qout' = Tail(qout)
    /\ UNCHANGED <<logFixed, qin, now, sink>>

\* a tick of the clock: a sample takes at most SampleTicks, and no more
\* than one tick goes by between two readings of the clock otherwise
Tick ==
    /\ now < MaxTime
    /\ logger.pc \notin {"boot", "done", "failed"}
    /\ IF logger.pc \in {"get", "group", "insert"}
       THEN /\ logger.work < SampleTicks
            /\ logger' = [logger EXCEPT !.work = @ + 1]
       ELSE /\ logger.lag < 1
            /\ logger' = [logger EXCEPT !.lag = @ + 1]
    /\ now' = now + 1
    /\ UNCHANGED <<logFixed, qin, qout, sink>>

LogStep ==
    \/ LogBoot
    \/ LogWhile
    \/ LogQueue
    \/ LogCheck
    \/ LogGetStart
    \/ LogGetEnd
    \/ LogGetFail
    \/ LogGroupInsert
    \/ LogRows
    \/ LogInsert
    \/ LogCatchUp

NextLog ==
    \/ LogBoot
    \/ LogWhile
    \/ LogQueue
    \/ LogCheck
    \/ LogGetStart
    \/ LogGetEnd
    \/ LogGetFail
    \/ LogGroupInsert
    \/ LogRows
    \/ LogInsert
    \/ LogCatchUp
    \/ PutStop
    \/ PutCommand
    \/ CallerWait
    \/ Tick

SpecLog == InitLog /\ [][NextLog]_vars

\* the same logger over three periods
SpecPace == InitPace /\ [][NextLog]_vars

\* the logger thread keeps running, and so does the clock
SpecLogLive == SpecLog /\ WF_vars(LogStep) /\ WF_vars(Tick)

(***************************************************************************)
(* Claims about get and request                                            *)
(***************************************************************************)
DVFrames(fs) == SelectSeq(fs, LAMBDA f : f.cmd = "DV")
PollFrames(fs) == SelectSeq(fs, LAMBDA f : f.cmd = "")

\* the names that get treats as statistic names
IsStatName(meas) ==
    IF kind = "FlowController" THEN meas # "" /\ meas \in DOMAIN statistics
    ELSE meas \in DOMAIN statistics

StatNames(ns) == SelectSeq(ns, IsStatName)

\* the codes of a list of DV frames, in order
RECURSIVE CodesOf(_)
CodesOf(fs) == IF fs = <<>> THEN <<>> ELSE Tail(Head(fs).args) \o CodesOf(Tail(fs))

CeilDiv(n, k) == (n + k - 1) \div k

\* C3: a get of n statistic names issues ceil(n/13) DV frames of at most 13
\* codes each, which carry the codes of the names once and in order; one DV
\* frame when 1 <= n <= 13; the empty list gives one poll and no DV frame.
\* A list of statistic names only always completes.
C3_RequestBatching ==
    last.op = "get" =>
        LET stats == StatNames(names)
            n == Len(stats)
            dv == DVFrames(last.frames)
        IN  /\ (\A i \in 1..Len(names) : IsStatName(names[i])) => last.exc = "ok"
            /\ last.exc = "ok" =>
                /\ Len(dv) = CeilDiv(n, MaxStatsPerRequest)
                /\ \A i \in 1..Len(dv) : Len(dv[i].args) - 1 <= MaxStatsPerRequest
                /\ CodesOf(dv) = [i \in 1..n |-> statistics[stats[i]]]
                /\ (1 <= n /\ n <= MaxStatsPerRequest) => Len(dv) = 1
            /\ names = <<>> =>
                /\ last.exc = "ok"
                /\ Len(PollFrames(last.frames)) = 1
                /\ Len(last.frames) = 1

C3_Witness ==
    /\ last.op = "get"
    /\ last.exc = "ok"
    /\ Len(StatNames(names)) > 2 * MaxStatsPerRequest
    /\ Len(DVFrames(last.frames)) = 3

\* C4: request with more than 13 names raises and writes nothing, and no
\* DV frame of any call carries more than 13 codes.
C4_TooManyStats ==
    /\ (last.op = "request" /\ Len(names) > MaxStatsPerRequest) =>
            (last.exc = "IndexError" /\ last.frames = <<>>)
    /\ \A i \in 1..Len(last.frames) :
            last.frames[i].cmd = "DV" =>
                Len(last.frames[i].args) - 1 <= MaxStatsPerRequest

C4_Witness ==
    /\ last.op = "request"
    /\ Len(names) = MaxStatsPerRequest + 1
    /\ \A i \in 1..Len(names) : names[i] \in DOMAIN statistics
    /\ last.exc = "IndexError"

\* what an entry of the list makes get call
Trigger(meas) ==
    IF IsStatName(meas) THEN "request"
    ELSE IF Upper(meas) = "GAS" THEN "gas"
    ELSE IF kind = "FlowController" /\ Upper(meas) \in {"SETPOINT", "STPT"}
    THEN "setpoint"
    ELSE "poll"

Measurements == IF names = <<>> THEN <<"@">> ELSE names

TriggersPoll == \E i \in 1..Len(Measurements) : Trigger(Measurements[i]) = "poll"

Rank(c) == IF c = "poll" THEN 0 ELSE IF c = "request" THEN 2 ELSE 1

\* C5 as claimed: whatever the order of the entries, get calls poll first
\* (when an entry triggers it), then gas / setpoint, then the requests.
C5_PollFirst ==
    last.op = "get" =>
        /\ \A i, j \in 1..Len(last.calls) :
                i < j => Rank(last.calls[i]) <= Rank(last.calls[j])
        /\ TriggersPoll => (last.calls # <<>> /\ last.calls[1] = "poll")

\* the calls other than request that the list asks for, in list order,
\* poll only at the first entry that triggers it
RECURSIVE TriggerSeq(_, _, _)
TriggerSeq(ms, i, polled) ==
    IF i > Len(ms) THEN <<>>
    ELSE LET t == Trigger(ms[i])
         IN  IF t = "request" \/ (t = "poll" /\ polled)
             THEN TriggerSeq(ms, i + 1, polled)
             ELSE <<t>> \o TriggerSeq(ms, i + 1, polled \/ t = "poll")

IsPrefix(a, b) == Len(a) <= Len(b) /\ a = SubSeq(b, 1, Len(a))

\* C5 amended: get calls poll, gas and setpoint in the order in which the
\* entries of the list trigger them (poll once, at the first entry that
\* triggers it), and the requests after every entry has been handled.
C5_ListOrder ==
    last.op = "get" =>
        LET others == SelectSeq(last.calls, LAMBDA c : c # "request")
            expected == TriggerSeq(Measurements, 1, FALSE)
        IN  /\ \A i, j \in 1..Len(last.calls) :
                    (i < j /\ last.calls[i] = "request") => last.calls[j] = "request"
            /\ IsPrefix(others, expected)
            /\ (last.exc = "ok" \/ \E i \in 1..Len(last.calls) : last.calls[i] = "request")
                    => others = expected

C5_Witness ==
    /\ last.op = "get"
    /\ TriggersPoll
    /\ last.calls # <<>>
    /\ last.calls[1] \in {"gas", "setpoint"}

(***************************************************************************)
(* Claims about the commands and the aggregate set                         *)
(***************************************************************************)
\* C6 as claimed: below 10.05 every gas call, query or set, is routed to
\* the legacy form: it writes one G frame, no GS frame, and completes.
\* (Stated for the versions the gate tells from "unknown", that is not 0.)
C6_GasLegacyRouting ==
    (last.op = "gas" /\ VersBelow(1005)) =>
        /\ last.exc = "ok"
        /\ Len(last.frames) = 1
        /\ last.frames[1].cmd = "G"

\* C7 as claimed: below 9.00 setpoint(value) writes the legacy frame
\* <id>S <value> and returns the reply parsed as a standard data frame.
C7_SetpointLegacyRouting ==
    (last.op = "setpoint" /\ VersBelow(900)) =>
        /\ last.exc = "ok"
        /\ last.frames = <<Frame("S", <<last.arg[1]>>)>>
        /\ DOMAIN last.val = {df_format[i] : i \in 1..Len(df_format)}

\* the minimum firmware version of the gated commands without fallback
GateMin ==
    ("auto_tare" :> 1005) @@ ("baud" :> 1005) @@ ("streaming_rate" :> 1005)
        @@ ("loop_control_var" :> 900) @@ ("config_totalizer" :> 1000)
        @@ ("batch" :> 1000)

Reports(call, e) ==
    IF Upper(e.name) = "GAS"
    THEN "Gas" \in DOMAIN call.val /\ call.val["Gas"] = Params(e)[1]
    ELSE /\ "Requested_Setpt" \in DOMAIN call.val
         /\ call.val["Requested_Setpt"] = Float(Params(e)[1])

\* C9 as claimed: on a controller, after set({C: v}) has returned, for C
\* one of GAS, SETPOINT, the get([C]) that follows returns and reports v.
\* (SETPOINT is taken with a units table that has the key "" the setpoint
\* query looks up, so that a failure is never one of the table's making.)
C9_RoundTrip ==
    [][(/\ kind = "FlowController"
        /\ last.op = "set"
        /\ last.exc = "ok"
        /\ Len(last.arg) = 1
        /\ Upper(last.arg[1].name) \in {"GAS", "SETPOINT"}
        /\ Upper(last.arg[1].name) = "SETPOINT" => emptyKey
        /\ last'.op = "get"
        /\ last'.arg = <<last.arg[1].name>>)
            => (last'.exc = "ok" /\ Reports(last', last.arg[1]))]_vars

\* C10: the aggregate set ignores the names it does not know: the call
\* writes the frames, ends and returns as the call on the recognized
\* entries alone does; a mapping of unknown names only writes nothing and
\* returns the empty mapping; no unknown name is a key of the result.
C10_UnknownIgnored ==
    [][last'.op = "set" =>
            LET comm == last'.arg
                known == SelectSeq(comm, Recognized)
                r == set(dev, known)
            IN  /\ last'.frames = r.frames
                /\ last'.exc = r.exc
                /\ last'.val = r.val
                /\ dev' = r.dev
                /\ known = <<>> =>
                        (last'.frames = <<>> /\ last'.exc = "ok"
                            /\ last'.val = EmptyDict)
                /\ \A i \in 1..Len(comm) :
                        ~Recognized(comm[i]) => comm[i].name \notin DOMAIN last'.val]_vars

C10_Witness ==
    /\ last.op = "set"
    /\ Len(last.arg) = 2
    /\ ~Recognized(last.arg[1])
    /\ Recognized(last.arg[2])
    /\ last.exc = "ok"
    /\ last.frames # <<>>

(***************************************************************************)
(* Claims about the transport                                              *)
(***************************************************************************)
\* the callers whose frame is written and whose exchange is not completed
InFlight == {c \in Callers : pc[c] \in {"read", "exit"}}

\* C1 as claimed: at most one frame of a handle is in flight; a caller that
\* comes while an exchange goes on is held back and then served, so no call
\* ends with an error of the stream the callers share.
C1_OneInFlight ==
    /\ Cardinality(InFlight) <= 1
    /\ \A i \in 1..Len(done) : done[i].exc = "ok"

\* C2 as claimed: with one caller issuing its commands one after the other,
\* the command after one that ended at its read deadline (an empty line)
\* returns, if it reads anything, the reply to itself.
C2_TimeoutSafety ==
    (cmd[2] = 0) =>
        \A i \in 1..(Len(done) - 1) :
            (done[i].exc = "ok" /\ done[i].line = <<>>) =>
                /\ done[i + 1].exc = "ok"
                /\ done[i + 1].line \in {<<>>, <<done[i + 1].cmd>>}

(***************************************************************************)
(* Claims about the coordinator                                            *)
(***************************************************************************)
\* C11: remove_device closes the transport of a name's handle right before
\* it deletes the name; when it returns, no name it was given is registered,
\* every handle it removed is closed, and one name was deleted per name
\* given; the names of the registry are unique in every state.
C11_RemoveClosesFirst ==
    /\ \A i, j \in 1..Len(devices) : i # j => devices[i].name # devices[j].name
    /\ daq.op = "remove_device" =>
        /\ \A i \in 1..Len(daq.log) :
                daq.log[i].ev = "del" =>
                    /\ i > 1
                    /\ daq.log[i - 1] = [daq.log[i] EXCEPT !.ev = "close"]
        /\ daq.returned =>
            /\ \A i \in 1..Len(daq.arg) : daq.arg[i] \notin DictKeys(devices)
            /\ \A i \in 1..Len(daq.log) : daq.log[i].h \notin held
            /\ Len(daq.log) = 2 * Len(daq.arg)

C11_Witness ==
    /\ daq.op = "remove_device"
    /\ daq.returned
    /\ Len(daq.arg) = 2
    /\ devices = <<>>
    /\ \E i \in 1..Len(daq.log) : daq.log[i].h > Cardinality(Adopted)

\* C12: DAQ.init on a mapping with an entry whose port new_device cannot
\* open raises the error and returns no coordinator; a coordinator that is
\* returned holds every name of the mapping.
C12_InitAllOrNothing ==
    daq.op = "init" =>
        /\ (\E i \in 1..Len(daq.arg) :
                /\ daq.arg[i].val.type = "str"
                /\ new_device(daq.arg[i].val.port) # "ok")
            => (daq.exc # "ok" /\ ~daq.returned /\ devices = <<>>)
        /\ daq.returned =>
            /\ DictKeys(daq.ret) = {daq.arg[i].name : i \in 1..Len(daq.arg)}
            /\ devices = daq.ret

C12_Witness ==
    /\ daq.op = "init"
    /\ Len(daq.arg) = 2
    /\ daq.arg[1].val.type = "str"
    /\ new_device(daq.arg[1].val.port) = "ok"
    /\ daq.arg[2].val.type = "str"
    /\ daq.exc = "ValueError"

\* the handles of the names a get selects
SelectedHandles ==
    {DictGet(devices, n) : n \in
        {m \in DictKeys(devices) :
            \E i \in 1..Len(Selected(devices, daq.ids)) :
                Selected(devices, daq.ids)[i] = m}}

Stamped(vals) ==
    /\ {"Request Sent", "Response Received"} \subseteq DOMAIN vals
    /\ vals["Request Sent"] <= vals["Response Received"]

LineOps == {"_readline", "_write_readline"}

\* C14 as claimed: a read-line operation that ends at its read deadline,
\* before a complete line is there, fails with Timeout and returns none of
\* the bytes it has read.
C14_TimeoutDiscards ==
    \A i \in 1..Len(done) :
        (done[i].cmd \in LineOps /\ done[i].how = "timeout") =>
            (done[i].exc = "Timeout" /\ done[i].line = <<>>)

\* C15: with the stream not held open by open(), the stream is closed
\* whenever no operation is under way, whatever ended the operations before:
\* return, deadline, decode error, cancellation.
C15_ScopedRelease ==
    (pc[1] = "idle" /\ held = {}) => ser_devc = "closed"

C15_Witness ==
    /\ pc[1] = "idle"
    /\ held = {}
    /\ Len(done) = 2
    /\ done[1].how = "cancel"
    /\ done[1].cmd = "_write_readline"
    /\ done[2].exc = "UnicodeDecodeError"

\* C16 as claimed: from open() to close(), between the operations, the
\* stream is open and isOpen is true, and no operation was turned away by
\* the open stream.
C16_HeldOpen ==
    (held # {} /\ pc[1] = "idle") =>
        /\ ser_devc = "open"
        /\ isOpen
        /\ done # <<>> => done[Len(done)].exc # "BusyResourceError"

\* C17 as claimed: a read-line operation that ends at the end of a line
\* returns the bytes before the first EOL, so no EOL and nothing after it.
C17_OneLine ==
    \A i \in 1..Len(done) :
        (done[i].cmd \in LineOps /\ done[i].how = "eol" /\ done[i].exc = "ok") =>
            ~HasEol(done[i].line)

(***************************************************************************)
(* Claims about the data frame                                             *)
(***************************************************************************)
\* the keys of a mapping made by zip(keys, vals), in the order of keys
KeysInOrder(keys, val) ==
    LET in(k) == k \in DOMAIN val IN SelectSeq(keys, in)

\* the table ends with an extended row, so that the row get_df_format
\* leaves out is no standard field
EndsExtended == IsExt(dev.table[Len(dev.table)].NAME)

\* C18 as claimed: the keys of the mapping poll returns are the names of
\* the standard fields of the ??D* table, in the order of the table
\* (taken for the tables that end with an extended row and the frames
\* that hold every standard field).
C18_SchemaStability ==
    (last.op = "poll" /\ last.exc = "ok" /\ EndsExtended
        /\ Len(last.arg) >= Len(StdNames(dev.table))) =>
        /\ DOMAIN last.val = {StdNames(dev.table)[i] :
                                i \in 1..Len(StdNames(dev.table))}
        /\ KeysInOrder(df_format, last.val) = StdNames(dev.table)

\* the decimal fields of the standard frame that hold "--"
NoValueIdx ==
    {i \in 1..Len(last.arg) : i \in DecimalIdx /\ last.arg[i] = "--"}

\* C19 as claimed: a poll whose frame holds "--" in a decimal field returns,
\* with null for that field and a number for every other decimal field.
C19_NoValueIsNull ==
    (last.op = "poll" /\ EndsExtended /\ Len(last.arg) = Len(StdNames(dev.table))
        /\ NoValueIdx # {}) =>
        /\ last.exc = "ok"
        /\ \A i \in NoValueIdx : last.val[df_format[i]] = NONE

\* C20 as claimed: a command whose reply is "?", or has another number of
\* tokens than the schema (poll: neither that of the standard fields nor
\* that of the fields the handle keeps) or the label list (setpoint), fails;
\* it returns a mapping only when the number of tokens matches.
C20_MalformedReplyFails ==
    /\ (last.op = "poll" /\ EndsExtended
            /\ (last.arg = <<"?">>
                \/ Len(last.arg) \notin {Len(df_format), Len(StdNames(dev.table))}))
            => last.exc # "ok"
    /\ (last.op = "setpoint"
            /\ (last.arg = <<"?">> \/ Len(last.arg) # Len(SETPOINT_LABELS)))
            => last.exc # "ok"

(***************************************************************************)
(* Claims about discovery                                                  *)
(***************************************************************************)
\* the discovery ran with a port it can open, a full ??M* reply with a
\* version in it and a ??D* table
Discovered ==
    /\ last.op = "new_device"
    /\ dev.port = "/dev/ttyUSB0"
    /\ dev.reply.nlines = InfoLines
    /\ dev.reply.software # "none"
    /\ dev.table # <<>>

\* C21 as claimed: an empty reply or a model matching no predicate gives an
\* error and no handle; a model matching a controller predicate gives a
\* controller handle, one matching only a meter predicate a meter handle,
\* whatever the order of the classes; the handle has its schema.
C21_DiscoveryByModel ==
    /\ (last.op = "new_device"
            /\ (dev.reply.nlines = 0
                \/ (~is_model("FlowController", dev.reply.model)
                    /\ ~is_model("FlowMeter", dev.reply.model))))
        => (last.exc # "ok" /\ kind = NONE)
    /\ (Discovered /\ is_model("FlowController", dev.reply.model))
        => (last.exc = "ok" /\ kind = "FlowController" /\ last.val.schema # {})
    /\ (Discovered /\ is_model("FlowMeter", dev.reply.model)
            /\ ~is_model("FlowController", dev.reply.model))
        => (last.exc = "ok" /\ kind = "FlowMeter" /\ last.val.schema # {})

(***************************************************************************)
(* Claims about the handle                                                 *)
(***************************************************************************)
\* the commands that are parsed with the data-frame schema
DataFrameOps == {"poll", "configure_data_frame"} \cup DOMAIN TareCmd \cup DOMAIN ValveCmd

\* a ??D* line among the lines written by the calls i..j of the history,
\* after the FDF line of call i
Rediscovered(i, j) ==
    \/ \E k \in 1..Len(done[i].frames), l \in 1..Len(done[i].frames) :
            /\ k < l
            /\ done[i].frames[k].cmd = "FDF"
            /\ done[i].frames[l].cmd = "??D*"
    \/ \E m \in (i + 1)..j : \E l \in 1..Len(done[m].frames) :
            done[m].frames[l].cmd = "??D*"

\* C22 as claimed: after configure_data_frame succeeded, a ??D* exchange is
\* made before the next data-frame command is parsed.
C22_SchemaRediscovered ==
    \A i, j \in 1..Len(done) :
        (/\ i < j
         /\ done[i].op = "configure_data_frame"
         /\ done[i].exc = "ok"
         /\ done[j].op \in DataFrameOps
         /\ done[j].frames # <<>>)
        => Rediscovered(i, j)

StreamingAt(j) ==
    \E i \in 1..(j - 1) :
        /\ done[i].op = "start_stream"
        /\ \A m \in (i + 1)..(j - 1) : done[m].op # "stop_stream"

\* the commands that write a frame and read its reply
ExchangeOps == DataFrameOps

\* C24 as claimed: a command invoked while the handle streams does not
\* write a frame and read a reply.
C24_NoExchangeWhileStreaming ==
    \A j \in 1..Len(done) :
        (StreamingAt(j) /\ done[j].op \in ExchangeOps) => done[j].frames = <<>>

\* C25 as claimed: the tare and valve commands, version permitting, write
\* their one frame and return the reply parsed as a data frame.
C25_TareAndValveFrames ==
    \A j \in 1..Len(done) :
        LET op == done[j].op
            c == IF op \in DOMAIN TareCmd THEN TareCmd[op] ELSE ValveCmd[op]
        IN  (/\ op \in DOMAIN TareCmd \cup DOMAIN ValveCmd
             /\ (op \in DOMAIN ValveCmd => ~VersBelow(ValveMin[op]))
             /\ ~StreamingAt(j)
             /\ \A m \in 1..(j - 1) : done[m].op \notin {"change_unit_id", "stop_stream"})
            => /\ done[j].frames = <<[id |-> done[j].id, cmd |-> c, args |-> <<>>]>>
               /\ done[j].exc = "ok"
               /\ DOMAIN done[j].val = {df_format[k] : k \in 1..3}

(***************************************************************************)
(* Claims about the logger                                                 *)
(***************************************************************************)
\* C26: the logger loop ends and the connection of the sink is closed; once
\* "Stop" was taken from the queue the loop is left at once and no sample is
\* requested any more; a loop that ends without a Stop (and without an
\* exception) ends after the duration has elapsed.
C26_LoggerTerminates ==
    /\ <>(logger.pc \in {"done", "failed"} /\ sink.conn = "closed")
    /\ [](logger.stopped => (logger.pc = "done" /\ sink.conn = "closed"))
    /\ [][logger.stopped => logger'.k = logger.k]_vars
    /\ []((logger.pc = "done" /\ ~logger.stopped)
            => now - logger.start > logger.duration)

\* the loop was left by a Stop after a sample was taken
C26_Witness ==
    /\ logger.pc = "done"
    /\ logger.stopped
    /\ logger.k >= 1
    /\ sink.conn = "closed"

\* C27 as claimed: every command taken from the inbound queue is executed
\* and one result for it is put on the outbound queue.
C27_CommandAnswered == Len(qout) = logger.taken

\* every device has its row of sample j in the sink
InSink(j) ==
    \A i \in 1..Len(LogDevices) :
        \E n \in 1..Len(sink.rows) :
            sink.rows[n].k = j /\ sink.rows[n].Device = LogDevices[i]

\* the number of the sample that is being taken, or is the next to be
Current == IF logger.get = "no" THEN logger.k + 1 ELSE logger.k

\* the samples whose rows are built and not yet in the sink
Awaiting ==
    {logger.rows[i].k : i \in 1..Len(logger.rows)}
        \ {sink.rows[n].k : n \in 1..Len(sink.rows)}

\* C29: without write_async the rows of every sample before are in the sink
\* when a sample is requested; with write_async the rows of sample k-1 go
\* into the sink inside the task group that takes sample k, neither before
\* nor after it; at most one batch of rows awaits the sink.
C29_WriteModes ==
    /\ (~logger.write_async /\ logger.pc = "get")
        => \A j \in 1..(Current - 1) : InSink(j)
    /\ (logger.write_async /\ logger.pc = "group")
        => /\ \A j \in 1..(Current - 2) : InSink(j)
           /\ Current > 1 => (InSink(Current - 1) <=> logger.ins = "done")
           /\ ~InSink(Current)
    /\ (logger.write_async /\ logger.pc \in {"loop", "queue", "check", "catchup"})
        => /\ \A j \in 1..(logger.k - 1) : InSink(j)
           /\ ~InSink(logger.k)
    /\ Cardinality(Awaiting) <= 1

\* write_async: the rows of sample 1 are in the sink while sample 2 is
\* being taken
C29_Witness ==
    /\ logger.write_async
    /\ logger.pc = "group"
    /\ logger.get = "sent"
    /\ logger.k = 2
    /\ InSink(1)

\* the rows of a device in the sink, in the order they were inserted
RowsOf(d) == LET of(r) == r.Device = d IN SelectSeq(sink.rows, of)

\* the loop ran for its duration: it ended without Stop or exception
RanOut == logger.pc = "done" /\ ~logger.stopped

\* the rows of every device in the sink are floor(duration * rate) - 1, that
\* number, or that number + 1, and the k-th row's Time is within a period
\* of start + k periods
TickBound ==
    \A i \in 1..Len(LogDevices) :
        LET rs == RowsOf(LogDevices[i])
            F == logger.duration \div Period
        IN  /\ Len(rs) \in {F - 1, F, F + 1}
            /\ \A n \in 1..Len(rs) :
                LET due == 2 * (logger.start + n * Period)
                IN  /\ rs[n].Time2 - due <= 2 * Period
                    /\ due - rs[n].Time2 <= 2 * Period

C31_TimeoutProceeds == ~(logger.pc = "failed" /\ logger.exc = "TimeoutError")

\* C32 as claimed: the due test lets the sample go as soon as
\* now - start >= reps * (1 / rate), so that the first sample is taken at
\* start.
C32_SampleAtNominalTick ==
    [][(/\ logger.pc = "check"
        /\ logger'.pc # "check"
        /\ now - logger.start >= logger.reps * Period)
            => logger'.pc \in {"get", "group"}]_vars

\* C32, amended: the due test lets the sample go if and only if
\* now - start >= (reps + 1) * (1 / rate): the first sample is taken one
\* period after start, and no sample is requested before start plus reps + 1
\* periods, hence never before its nominal tick.
C32_SampleAfterPeriod ==
    /\ [][(logger.pc = "check" /\ logger'.pc # "check")
            => (logger'.pc \in {"get", "group"}
                    <=> now - logger.start >= (logger.reps + 1) * Period)]_vars
    /\ [](logger.get = "sent"
            => /\ logger.sent >= logger.start + (logger.reps + 1) * Period
               /\ logger.sent >= logger.start + logger.k * Period)

\* the first sample, requested exactly one period after start
C32_Witness ==
    /\ logger.get = "sent"
    /\ logger.k = 1
    /\ logger.reps = 0
    /\ logger.sent = logger.start + Period

\* C33: reps never goes down; the catch-up after a sample leaves reps above
\* where it was and so far that the next sample is not due yet, with the
\* warning exactly when the elapsed time has passed the next tick by a whole
\* period or more; and a sample is never requested at the moment the one
\* before it ended, so missed ticks are not replayed back-to-back.
C33_OverrunSkips ==
    /\ [][logger'.reps >= logger.reps]_vars
    /\ [][(logger.pc = "catchup" /\ logger'.pc = "loop")
            => /\ logger'.reps > logger.reps
               /\ ~Due(now, logger.start, logger'.reps)
               /\ now - logger.start < (logger'.reps + 1) * Period
               /\ logger'.warned
                    <=> (logger.warned
                            \/ now - logger.start >= (logger.reps + 2) * Period)]_vars
    /\ []((logger.get = "sent" /\ logger.k > 1) => logger.sent > logger.df.recv)

\* a sample requested after a catch-up that gave the warning
C33_Witness ==
    /\ logger.warned
    /\ logger.get = "sent"
    /\ logger.k >= 2

(***************************************************************************)
(* Claims about the flag isOpen, the delegations and the registry          *)
(***************************************************************************)
\* C34 as claimed: isOpen is true only while the stream is open, whatever
\* ended the operations before, so that no _read or _write meets a closed
\* stream it believes open.
C34_IsOpenOnlyWhileOpen ==
    /\ isOpen => ser_devc = "open"
    /\ \A i \in 1..Len(done) : done[i].exc # "ClosedResourceError"

\* the methods that hand a call over to their counterpart
DelegOps == {"gas", "_set_gas", "setpoint", "_change_setpoint"}

\* the method a call of op with first argument a hands over to, NONE when it
\* runs its own body; setpoint names change_setpoint, which does not exist
Delegate(op, a) ==
    CASE op = "gas" -> IF Truthy(a) /\ VersBelow(1005) THEN "_set_gas" ELSE NONE
      [] op = "_set_gas" -> IF VersAtLeast(1005) THEN "gas" ELSE NONE
      [] op = "setpoint" -> IF VersBelow(900) THEN "change_setpoint" ELSE NONE
      [] op = "_change_setpoint" ->
            IF ~VersBelow(433) /\ VersAtLeast(900) THEN "setpoint" ELSE NONE

\* the command letters of the frame each method writes in its own body
OwnCmd ==
    ("gas" :> "GS") @@ ("_set_gas" :> "G") @@ ("setpoint" :> "LS")
        @@ ("_change_setpoint" :> "S")

\* C35: a call of gas, _set_gas, setpoint or _change_setpoint completes, for
\* every version and argument; the method it hands over to, if any, does not
\* hand over again; the call writes at most one frame, and that frame is the
\* one of the method that ran its body.
C35_DelegatesOnce ==
    last.op \in DelegOps =>
        LET nxt == Delegate(last.op, last.arg[1])
            final == IF nxt \in DelegOps THEN nxt ELSE last.op
        IN  /\ nxt \in DelegOps => Delegate(nxt, last.arg[1]) = NONE
            /\ Len(last.frames) <= 1
            /\ \A i \in 1..Len(last.frames) : last.frames[i].cmd = OwnCmd[final]

\* gas, below 10.05, handed over to _set_gas, which wrote its G frame
C35_Witness ==
    /\ last.op = "gas"
    /\ Delegate("gas", last.arg[1]) = "_set_gas"
    /\ Len(last.frames) = 1
    /\ last.frames[1].cmd = "G"

\* the handles a registry holds
Handles(reg) == {reg[i].val : i \in 1..Len(reg)}

\* C36 as claimed: a handle that add_device or remove_device takes out of
\* the registry, be it by removal or by giving its name to another handle,
\* has its transport closed when the call is over.
C36_UnregisteredClosed ==
    [][daq'.op \in {"add_device", "remove_device"}
            => \A h \in Handles(devices) \ Handles(devices') : h \notin held']_vars

(***************************************************************************)
(* Claims about the end of the logger and its callers                      *)
(***************************************************************************)
\* C38 as claimed: when the loop has ended by Stop or by its duration, the
\* rows of every sample taken are in the sink, in both write modes.
C38_AllRowsPersisted ==
    logger.pc = "done" => \A j \in 1..logger.k : InSink(j)

\* the callers of get and set that wait in their loop on qout
Waiting == {c \in 1..Len(logger.callers) : logger.callers[c].pc = "wait"}

\* C39 as claimed: once the logger thread has ended, by Stop, by its duration
\* or by an error, no caller of get or set is left waiting for a reply that
\* is not on the outbound queue.
C39_NoCallerStranded ==
    logger.pc \in {"done", "failed"} => Cardinality(Waiting) <= Len(qout)

\* C40 as claimed: after stop_stream(new_id) the frames of the later commands
\* begin with new_id, and after stop_stream() with the address as it was.
\* (Stated for the later commands that write an addressed frame, up to the
\* next change of address.)
C40_StopStreamNewId ==
    \A i \in 1..Len(done) :
        done[i].op = "stop_stream" =>
            LET addr == IF done[i].arg = <<NONE>> THEN done[i].id ELSE done[i].arg[1]
            IN  \A j \in (i + 1)..Len(done) :
                    (/\ done[j].op # "stop_stream"
                     /\ \A m \in (i + 1)..(j - 1) :
                            done[m].op \notin {"change_unit_id", "stop_stream"})
                    => \A l \in 1..Len(done[j].frames) : done[j].frames[l].id = addr

====
